---- MODULE Spec2Model ----
(***************************************************************************)
(* Book recommendation platform: the similarity utilities, the content-    *)
(* based and collaborative engines, the recommendation service and the     *)
(* storage operations they read.                                           *)
(*                                                                         *)
(* A genre label is a Python str, modelled as a sequence of one-character  *)
(* strings, so that str.lower() and str.strip() are computed character by  *)
(* character.  A float that the code obtains by dividing two small         *)
(* integers is modelled as the exact fraction in lowest terms; a float     *)
(* that the code rounds to three decimals is modelled as an integer number *)
(* of thousandths.                                                         *)
(***************************************************************************)
EXTENDS Integers, Sequences, FiniteSets, TLC

VARIABLES users, books, ratings, sessions, now, issued, calls, result, argX, argY,
          prev

vars == <<users, books, ratings, sessions, now, issued, calls, result, argX, argY, prev>>

(***************************************************************************)
(* Bounds of the model.                                                    *)
(***************************************************************************)
MaxLimit == 2

MaxRatings == 2

MaxListLen == 2

\* the days the clock runs through after day 0, and the hours of a day
MaxDay == 2

HoursPerDay == 2

(***************************************************************************)
(* Program constants.                                                      *)
(***************************************************************************)
MIN_RATING == 1

MAX_RATING == 5

\* MIN_SIMILARITY_THRESHOLD = 0.1, as the fraction ThresholdNum / ThresholdDen
ThresholdNum == 1

ThresholdDen == 10

\* get_high_rated_books_by_users(similar_user_ids, min_rating=4)
HighRatingMin == 4

\* score 0.5 of a popular fallback record, in thousandths
PopularScore == 500

\* score 0.3 of a recent fallback record, in thousandths
RecentScore == 300

(***************************************************************************)
(* Strings.                                                                *)
(***************************************************************************)
\* the cased letters of the model's alphabet: <<upper case, lower case>>
Letters == {<<"S", "s">>, <<"F", "f">>, <<"A", "a">>, <<"D", "d">>, <<"E", "e">>, <<"U", "u">>}

\* str.lower() on one character
LowerChar(c) ==
    IF \E l \in Letters : l[1] = c THEN (CHOOSE l \in Letters : l[1] = c)[2] ELSE c

\* str.upper() on one character
UpperChar(c) ==
    IF \E l \in Letters : l[2] = c THEN (CHOOSE l \in Letters : l[2] = c)[1] ELSE c

IsLetter(c) == \E l \in Letters : c = l[1] \/ c = l[2]

\* str.lower()
Lower(s) == [i \in 1..Len(s) |-> LowerChar(s[i])]

IsSpace(c) == c = " "

RECURSIVE LStrip(_)
LStrip(s) ==
    IF s # <<>> /\ IsSpace(Head(s)) THEN LStrip(Tail(s)) ELSE s

RECURSIVE RStrip(_)
RStrip(s) ==
    IF s # <<>> /\ IsSpace(s[Len(s)])
    THEN RStrip(SubSeq(s, 1, Len(s) - 1))
    ELSE s

\* str.strip()
Strip(s) == RStrip(LStrip(s))

\* " ".join(s.split()): the words of s, separated by single spaces
RECURSIVE JoinSplit(_)
JoinSplit(s) ==
    LET t == LStrip(s) IN
    IF t = <<>> THEN <<>>
    ELSE IF Len(t) >= 2 /\ IsSpace(t[2]) /\ ~IsSpace(t[1])
         THEN LET rest == JoinSplit(Tail(t)) IN
              IF rest = <<>> THEN <<t[1]>> ELSE <<t[1], " ">> \o rest
         ELSE <<t[1]>> \o JoinSplit(Tail(t))

\* str.title(): a letter is upper-cased after a non-letter and lower-cased
\* after a letter
TitleCase(s) ==
    [i \in 1..Len(s) |->
        IF i = 1 \/ ~IsLetter(s[i - 1]) THEN UpperChar(s[i]) ELSE LowerChar(s[i])]

\* the three genres of GENRES that the model uses:
\* "S" Science Fiction, "F" Fantasy, "A" Adventure
GENRES == << <<"S">>, <<"F">>, <<"A">> >>

(***************************************************************************)
(* Sequence and number helpers.                                            *)
(***************************************************************************)
Range(s) == {s[i] : i \in DOMAIN s}

Min(a, b) == IF a <= b THEN a ELSE b

RECURSIVE GCD(_, _)
GCD(a, b) == IF b = 0 THEN a ELSE GCD(b, a % b)

\* the float n / d (d > 0), as the fraction in lowest terms
Frac(n, d) ==
    LET g == GCD(n, d) IN
    IF n = 0 THEN [num |-> 0, den |-> 1] ELSE [num |-> n \div g, den |-> d \div g]

\* f rounded to a multiple of 1 / scale, as the number of such units (ties go
\* to the even neighbour)
RoundTo(f, scale) ==
    LET q == (scale * f.num) \div f.den
        r == (scale * f.num) % f.den
    IN  IF 2 * r > f.den THEN q + 1
        ELSE IF 2 * r < f.den THEN q
        ELSE IF q % 2 = 0 THEN q ELSE q + 1

\* round(f, 3), in thousandths
Round3(f) == RoundTo(f, 1000)

\* all orderings of the finite set S, as sequences without repetition
Perms(S) ==
    {p \in [1..Cardinality(S) -> S] : \A i, j \in DOMAIN p : p[i] = p[j] => i = j}

\* the first n elements of s: the slice s[:n] for n >= 0
\* a faulty slice that keeps one element more
TakeOneMore(s, n) == SubSeq(s, 1, Min(n + 1, Len(s)))

\* s[:n] for n >= 0
Take(s, n) == SubSeq(s, 1, Min(n, Len(s)))

(***************************************************************************)
(* recommender/utils.py                                                    *)
(***************************************************************************)
\* a faulty jaccard_similarity whose union counts the common elements twice
JaccardSimilarityAddsSizes(set1, set2) ==
    IF set1 = {} /\ set2 = {} THEN Frac(0, 1)
    ELSE LET intersection == Cardinality(set1 \cap set2)
             union == Cardinality(set1) + Cardinality(set2)
         IN  IF union = 0 THEN Frac(0, 1) ELSE Frac(intersection, union)

\* jaccard_similarity(set1, set2)
JaccardSimilarity(set1, set2) ==
    IF set1 = {} /\ set2 = {} THEN Frac(0, 1)
    ELSE LET intersection == Cardinality(set1 \cap set2)
             union == Cardinality(set1 \cup set2)
         IN  IF union = 0 THEN Frac(0, 1) ELSE Frac(intersection, union)

\* normalize_genres(genres): genres is a list (or any iterable) of labels;
\* its falsy (empty) entries are dropped before lower().strip() is applied
NormalizeGenres(genres) ==
    IF genres = <<>> THEN {}
    ELSE {Strip(Lower(genres[i])) : i \in {j \in DOMAIN genres : genres[j] # <<>>}}

\* calculate_genre_overlap(user_interests, book_genres)
CalculateGenreOverlap(user_interests, book_genres) ==
    LET user_set == NormalizeGenres(user_interests)
        book_set == NormalizeGenres(book_genres)
    IN  JaccardSimilarity(user_set, book_set)

(***************************************************************************)
(* database.py: the stored tables and the queries the engines read.        *)
(*   users   : sequence of rows [username, interests]; a row's id is its   *)
(*             index (INTEGER PRIMARY KEY AUTOINCREMENT, never deleted)    *)
(*   books   : sequence of rows [title, author, genres]; id is the index   *)
(*   ratings : function from <<user_id, book_id>> to the rating; its       *)
(*             domain holds the pairs that have a row (UNIQUE(user_id,     *)
(*             book_id))                                                   *)
(*   sessions: function from session_token to [user_id, expires_at], the   *)
(*             text that create_session stored                             *)
(*   now     : the time, [day, hour]                                       *)
(*   issued  : how many tokens secrets.token_urlsafe has returned          *)
(*   calls   : function from caller to the service call it has in progress:*)
(*             the operation, its arguments, the statement it is at and    *)
(*             what its reads returned so far                              *)
(***************************************************************************)
UserIds == DOMAIN users

BookIds == DOMAIN books

\* get_user_by_id(user_id) finds a row
UserExists(user_id) == user_id \in UserIds

\* get_book_by_id(book_id) finds a row
BookExists(book_id) == book_id \in BookIds

\* get_rated_book_ids(user_id)
GetRatedBookIds(user_id) == {b \in BookIds : <<user_id, b>> \in DOMAIN ratings}

\* get_user_rating(user_id, book_id): 0 stands for None
GetUserRating(user_id, book_id) ==
    IF <<user_id, book_id>> \in DOMAIN ratings THEN ratings[<<user_id, book_id>>] ELSE 0

\* COUNT(r.id) of a book in get_popular_books
RatingCount(book_id) == Cardinality({p \in DOMAIN ratings : p[2] = book_id})

RECURSIVE SumRatings(_)
SumRatings(pairs) ==
    IF pairs = {} THEN 0
    ELSE LET p == CHOOSE q \in pairs : TRUE IN ratings[p] + SumRatings(pairs \ {p})

\* the sum behind AVG(r.rating) of a book
RatingSum(book_id) == SumRatings({p \in DOMAIN ratings : p[2] = book_id})

\* get_all_books(): ORDER BY created_at DESC.  created_at is CURRENT_TIMESTAMP,
\* of one-second resolution, and any set of rows may share it (seed_books.py
\* inserts its whole list in one transaction), so the rows can come back in any
\* order: the possible results are all orderings of the book ids
GetAllBooksOrders == Perms(BookIds)

\* get_recent_books(limit): the same ordering, LIMIT limit
GetRecentBooksResults(limit) == {Take(p, limit) : p \in Perms(BookIds)}

\* ORDER BY rating_count DESC, avg_rating DESC: row a may precede row b.
\* AVG is NULL for a book without ratings and NULLs sort last under DESC;
\* among rows of equal count the averages compare as the sums do
PopularBefore(a, b) ==
    \/ RatingCount(a) > RatingCount(b)
    \/ RatingCount(a) = RatingCount(b) /\ RatingSum(a) >= RatingSum(b)

\* get_popular_books(limit): every book (LEFT JOIN), ties in any order
GetPopularBooksResults(limit) ==
    {Take(p, limit) : p \in {q \in Perms(BookIds) :
        \A i, j \in DOMAIN q : i < j => PopularBefore(q[i], q[j])}}

\* a faulty query that lacks "AND r.rating >= ?"
HighRatedRowsAnyRating(user_ids, min_rating) ==
    {[id |-> p[2], rated_by_user_id |-> p[1], rating |-> ratings[p]] :
        p \in {q \in DOMAIN ratings : q[1] \in user_ids}}

\* the rows of get_high_rated_books_by_users(user_ids, min_rating)
HighRatedRows(user_ids, min_rating) ==
    {[id |-> p[2], rated_by_user_id |-> p[1], rating |-> ratings[p]] :
        p \in {q \in DOMAIN ratings : q[1] \in user_ids /\ ratings[q] >= min_rating}}

\* get_high_rated_books_by_users: ORDER BY r.rating DESC, ties in any order
GetHighRatedBooksByUsersResults(user_ids, min_rating) ==
    IF user_ids = {} THEN {<<>>}
    ELSE {p \in Perms(HighRatedRows(user_ids, min_rating)) :
            \A i, j \in DOMAIN p : i < j => p[i].rating >= p[j].rating}

(***************************************************************************)
(* database.py: user_sessions.  A time is [day, hour]; a timestamp text is *)
(* <<day, separator, hour>>, compared as SQLite compares TEXT: field by    *)
(* field from the left, the separator by its character code.               *)
(***************************************************************************)
\* SESSION_EXPIRY_HOURS: 24 hours, one day
SESSION_EXPIRY_HOURS == HoursPerDay

StartOfTime == [day |-> 0, hour |-> 0]

HoursOf(t) == t.day * HoursPerDay + t.hour

\* t + timedelta(hours=hours)
TimeAfter(t, hours) ==
    [day |-> (HoursOf(t) + hours) \div HoursPerDay,
     hour |-> (HoursOf(t) + hours) % HoursPerDay]

\* datetime.isoformat(): 'YYYY-MM-DDTHH:MM:SS'
IsoFormat(t) == <<t.day, "T", t.hour>>

\* datetime('now') of SQLite: 'YYYY-MM-DD HH:MM:SS'
SqlDatetime(t) == <<t.day, " ", t.hour>>

\* the character code of a separator
Ord(c) == IF c = " " THEN 32 ELSE 84

\* a > b on TEXT
TextGreater(a, b) ==
    \/ a[1] > b[1]
    \/ a[1] = b[1] /\ Ord(a[2]) > Ord(b[2])
    \/ a[1] = b[1] /\ Ord(a[2]) = Ord(b[2]) /\ a[3] > b[3]

\* WHERE expires_at > datetime('now')
SessionSelected(session_token) ==
    /\ session_token \in DOMAIN sessions
    /\ TextGreater(sessions[session_token].expires_at, SqlDatetime(now))

\* cleanup_expired_sessions(): DELETE ... WHERE expires_at <= datetime('now')
CleanupExpiredSessions ==
    [t \in {u \in DOMAIN sessions : SessionSelected(u)} |-> sessions[t]]

(***************************************************************************)
(* Python list helpers.                                                    *)
(***************************************************************************)
\* insert record r into the list s, sorted by score descending, after every
\* record of score >= r.score
RECURSIVE InsertByScore(_, _)
InsertByScore(s, r) ==
    IF s = <<>> THEN <<r>>
    ELSE IF Head(s).score >= r.score THEN <<Head(s)>> \o InsertByScore(Tail(s), r)
    ELSE <<r>> \o s

\* a faulty sort that leaves the list in the order it was built
SortByScoreDescUnsorted(s) == s

\* recs.sort(key=lambda x: x['score'], reverse=True): stable, so records of
\* equal score keep their order
RECURSIVE SortByScoreDesc(_)
SortByScoreDesc(s) ==
    IF s = <<>> THEN <<>>
    ELSE InsertByScore(SortByScoreDesc(SubSeq(s, 1, Len(s) - 1)), s[Len(s)])

\* [x for x in s if x in kept], kept the set of the values that pass the test
RECURSIVE FilterSeq(_, _)
FilterSeq(s, kept) ==
    IF s = <<>> THEN <<>>
    ELSE IF Head(s) \in kept THEN <<Head(s)>> \o FilterSeq(Tail(s), kept)
    ELSE FilterSeq(Tail(s), kept)

(***************************************************************************)
(* recommender/content_based.py                                            *)
(***************************************************************************)
\* score >= MIN_SIMILARITY_THRESHOLD, for a score n / d
AtLeastThreshold(score) == score.num * ThresholdDen >= ThresholdNum * score.den

\* the explanation of a content-based record
ContentReason(user_interests, book_genres) ==
    LET matching_genres == {Lower(g) : g \in Range(user_interests)}
                               \cap {Lower(g) : g \in Range(book_genres)}
        matching_list ==
            FilterSeq(book_genres, {g \in Range(book_genres) : Lower(g) \in matching_genres})
    IN  IF matching_list # <<>>
        THEN [text |-> "Matches your interest in", genres |-> Take(matching_list, 3)]
        ELSE [text |-> "Based on your reading preferences", genres |-> <<>>]

\* the record appended for one book
ContentRecord(user_interests, book_id) ==
    [book |-> book_id,
     score |-> Round3(CalculateGenreOverlap(user_interests, books[book_id].genres)),
     reason |-> ContentReason(user_interests, books[book_id].genres),
     recommendation_type |-> "content_based"]

\* a faulty loop test that does not skip the books the user rated
ContentKeepsRated(user_id, book_id) ==
    AtLeastThreshold(CalculateGenreOverlap(users[user_id].interests,
                                           books[book_id].genres))

\* the loop over all_books: a book is skipped when the user rated it or its
\* score is below the threshold
ContentKeeps(user_id, book_id) ==
    /\ book_id \notin GetRatedBookIds(user_id)
    /\ AtLeastThreshold(CalculateGenreOverlap(users[user_id].interests,
                                              books[book_id].genres))

\* get_content_based_recommendations(user_id, limit), for the order all_books
\* in which get_all_books() returned the books
GetContentBasedRecommendations(user_id, limit, all_books) ==
    IF ~UserExists(user_id) THEN <<>>
    ELSE IF users[user_id].interests = <<>> THEN <<>>
    ELSE LET kept == FilterSeq(all_books, {b \in BookIds : ContentKeeps(user_id, b)})
             recommendations ==
                 [i \in 1..Len(kept) |-> ContentRecord(users[user_id].interests, kept[i])]
         IN  Take(SortByScoreDesc(recommendations), limit)

\* every result get_content_based_recommendations can return
ContentBasedResults(user_id, limit) ==
    {GetContentBasedRecommendations(user_id, limit, all_books) :
        all_books \in GetAllBooksOrders}

(***************************************************************************)
(* recommender/collaborative.py                                            *)
(***************************************************************************)
\* get_all_users(): no ORDER BY, so the rows can come back in any order
GetAllUsersOrders == Perms(UserIds)

\* a faulty threshold test that keeps every peer
AtLeastMinSimilarityAlways(similarity) == similarity.num >= 0

\* similarity >= min_similarity (MIN_SIMILARITY_THRESHOLD), for n / d
AtLeastMinSimilarity(similarity) ==
    similarity.num * ThresholdDen >= ThresholdNum * similarity.den

\* the peers find_similar_users keeps: not the target, interests not empty
\* once normalized, similarity at least the threshold
IsSimilarUser(user_id, other) ==
    /\ other # user_id
    /\ NormalizeGenres(users[other].interests) # {}
    /\ AtLeastMinSimilarity(JaccardSimilarity(NormalizeGenres(users[user_id].interests),
                                              NormalizeGenres(users[other].interests)))

\* the record appended for one kept peer
SimilarUserRecord(user_id, other) ==
    LET target_interests == NormalizeGenres(users[user_id].interests)
        user_interests == NormalizeGenres(users[other].interests)
        common == target_interests \cap user_interests
    IN  [user_id |-> other,
         username |-> users[other].username,
         similarity |-> Round3(JaccardSimilarity(target_interests, user_interests)),
         common_interests |->
             FilterSeq(users[user_id].interests,
                       {g \in Range(users[user_id].interests) : Lower(g) \in common})]

RECURSIVE InsertBySimilarity(_, _)
InsertBySimilarity(s, r) ==
    IF s = <<>> THEN <<r>>
    ELSE IF Head(s).similarity >= r.similarity
         THEN <<Head(s)>> \o InsertBySimilarity(Tail(s), r)
    ELSE <<r>> \o s

\* similar_users.sort(key=lambda x: x['similarity'], reverse=True): stable
RECURSIVE SortBySimilarityDesc(_)
SortBySimilarityDesc(s) ==
    IF s = <<>> THEN <<>>
    ELSE InsertBySimilarity(SortBySimilarityDesc(SubSeq(s, 1, Len(s) - 1)), s[Len(s)])

\* find_similar_users(user_id), for the order all_users in which
\* get_all_users() returned the users
FindSimilarUsers(user_id, all_users) ==
    IF ~UserExists(user_id) THEN <<>>
    ELSE IF NormalizeGenres(users[user_id].interests) = {} THEN <<>>
    ELSE LET kept == FilterSeq(all_users, {o \in UserIds : IsSimilarUser(user_id, o)})
         IN  SortBySimilarityDesc([i \in 1..Len(kept) |-> SimilarUserRecord(user_id, kept[i])])

\* the keys of book_scores in insertion order: the book ids of the rows, each at
\* its first occurrence
RECURSIVE FirstOccurrences(_, _)
FirstOccurrences(rows, seen) ==
    IF rows = <<>> THEN <<>>
    ELSE IF Head(rows).id \in seen THEN FirstOccurrences(Tail(rows), seen)
    ELSE <<Head(rows).id>> \o FirstOccurrences(Tail(rows), seen \cup {Head(rows).id})

\* sum(u['similarity'] for u in similar_users), in thousandths
RECURSIVE SumSimilarity(_)
SumSimilarity(similar_users) ==
    IF similar_users = <<>> THEN 0
    ELSE Head(similar_users).similarity + SumSimilarity(Tail(similar_users))

\* user_similarity.get(rater_id, 0), in thousandths
SimilarityOf(similar_users, rater_id) ==
    IF \E i \in DOMAIN similar_users : similar_users[i].user_id = rater_id
    THEN similar_users[CHOOSE i \in DOMAIN similar_users :
                           similar_users[i].user_id = rater_id].similarity
    ELSE 0

\* the sum over the contributors of similarity * rating, in thousandths: five
\* times book_scores[book_id]['score']
RECURSIVE WeightedSum(_, _)
WeightedSum(similar_users, contributors) ==
    IF contributors = <<>> THEN 0
    ELSE SimilarityOf(similar_users, Head(contributors).rated_by_user_id)
             * Head(contributors).rating
         + WeightedSum(similar_users, Tail(contributors))

RECURSIVE SumOfRatings(_)
SumOfRatings(contributors) ==
    IF contributors = <<>> THEN 0
    ELSE Head(contributors).rating + SumOfRatings(Tail(contributors))

\* a faulty normalisation: the rating is not divided by 5.0 and the quotient
\* is not capped
NormalizedScoreUnscaled(weighted, max_possible) ==
    IF max_possible > 0 THEN Frac(weighted, max_possible) ELSE Frac(0, 1)

\* min(data['score'] / max_possible, 1.0) if max_possible > 0 else 0, where
\* data['score'] = weighted / 5000 and max_possible = max_possible / 1000
NormalizedScore(weighted, max_possible) ==
    IF max_possible > 0
    THEN IF weighted >= 5 * max_possible THEN Frac(1, 1)
         ELSE Frac(weighted, 5 * max_possible)
    ELSE Frac(0, 1)

\* a faulty explanation that prints the rating of the first contributor as the
\* average
CollaborativeReasonFirstRating(contributors) ==
    LET num_recommenders == Len(contributors)
        avg_rating == Frac(contributors[1].rating, 1)
    IN  IF num_recommenders = 1
        THEN [text |-> "Recommended by a reader with similar taste",
              readers |-> 1, rated |-> RoundTo(avg_rating, 1)]
        ELSE [text |-> "Loved by readers with similar taste",
              readers |-> num_recommenders, avg |-> RoundTo(avg_rating, 10)]

\* the explanation of a collaborative record: the rating is printed with no
\* decimal for one contributor, the average with one decimal (here in tenths)
\* for several
CollaborativeReason(contributors) ==
    LET num_recommenders == Len(contributors)
        avg_rating == Frac(SumOfRatings(contributors), num_recommenders)
    IN  IF num_recommenders = 1
        THEN [text |-> "Recommended by a reader with similar taste",
              readers |-> 1, rated |-> RoundTo(avg_rating, 1)]
        ELSE [text |-> "Loved by readers with similar taste",
              readers |-> num_recommenders, avg |-> RoundTo(avg_rating, 10)]

\* the record built for one key of book_scores
CollaborativeRecord(similar_users, kept_rows, book_id) ==
    LET contributors == FilterSeq(kept_rows, {r \in Range(kept_rows) : r.id = book_id})
    IN  [book |-> book_id,
         score |-> Round3(NormalizedScore(WeightedSum(similar_users, contributors),
                                          SumSimilarity(similar_users))),
         reason |-> CollaborativeReason(contributors),
         recommendation_type |-> "collaborative",
         num_similar_users |-> Len(contributors)]

\* the rows the scoring loop does not skip: those of books the target has not
\* rated
CollaborativeKeeps(user_id, row) == row.id \notin GetRatedBookIds(user_id)

\* get_collaborative_recommendations(user_id, limit), for the list similar_users
\* that find_similar_users returned and the rows highly_rated_books that
\* get_high_rated_books_by_users returned
GetCollaborativeRecommendations(user_id, limit, similar_users, highly_rated_books) ==
    IF similar_users = <<>> THEN <<>>
    ELSE IF highly_rated_books = <<>> THEN <<>>
    ELSE LET kept_rows ==
                 FilterSeq(highly_rated_books,
                           {r \in Range(highly_rated_books) : CollaborativeKeeps(user_id, r)})
             keys == FirstOccurrences(kept_rows, {})
             recommendations ==
                 [i \in 1..Len(keys) |-> CollaborativeRecord(similar_users, kept_rows, keys[i])]
         IN  Take(SortByScoreDesc(recommendations), limit)

\* the divisors of the scoring loop of get_collaborative_recommendations, one
\* record per key of book_scores: max_possible (in thousandths), by which
\* data['score'] is divided, and num_recommenders, by which the sum of the
\* ratings is divided
CollaborativeDivisors(user_id, similar_users, highly_rated_books) ==
    IF similar_users = <<>> THEN {}
    ELSE IF highly_rated_books = <<>> THEN {}
    ELSE LET kept_rows ==
                 FilterSeq(highly_rated_books,
                           {r \in Range(highly_rated_books) : CollaborativeKeeps(user_id, r)})
             keys == FirstOccurrences(kept_rows, {})
         IN  {[book |-> keys[i],
               max_possible |-> SumSimilarity(similar_users),
               num_recommenders |->
                   Len(FilterSeq(kept_rows,
                                 {r \in Range(kept_rows) : r.id = keys[i]}))] :
                 i \in DOMAIN keys}

\* every list find_similar_users can return
FindSimilarUsersResults(user_id) ==
    {FindSimilarUsers(user_id, all_users) : all_users \in GetAllUsersOrders}

\* every result get_collaborative_recommendations can return
CollaborativeResults(user_id, limit) ==
    UNION {{GetCollaborativeRecommendations(user_id, limit, similar_users, rows) :
               rows \in GetHighRatedBooksByUsersResults(
                            {similar_users[i].user_id : i \in DOMAIN similar_users},
                            HighRatingMin)} :
           similar_users \in FindSimilarUsersResults(user_id)}

(***************************************************************************)
(* services/recommendation_service.py                                      *)
(***************************************************************************)
RecIds(recommendations) == {recommendations[i].book : i \in DOMAIN recommendations}

\* the record appended for a book of the popular list
PopularRecord(book_id) ==
    [book |-> book_id,
     score |-> PopularScore,
     reason |-> IF RatingCount(book_id) > 0 THEN "Popular among readers"
                ELSE "Recently added",
     recommendation_type |-> "fallback"]

\* the record appended for a book of the recent list
RecentRecord(book_id) ==
    [book |-> book_id,
     score |-> RecentScore,
     reason |-> "Recently added",
     recommendation_type |-> "fallback"]

\* the books of a fetched list that the fallback may recommend to the user
FallbackKeeps(user_id, book_id) == book_id \notin GetRatedBookIds(user_id)

\* a faulty loop that appends a recent book also when it is in the list
RECURSIVE AppendRecentRepeats(_, _, _)
AppendRecentRepeats(user_id, recommendations, recent) ==
    IF recent = <<>> THEN recommendations
    ELSE IF FallbackKeeps(user_id, Head(recent))
         THEN AppendRecentRepeats(user_id, Append(recommendations, RecentRecord(Head(recent))),
                                  Tail(recent))
    ELSE AppendRecentRepeats(user_id, recommendations, Tail(recent))

\* for book in recent: appended unless rated or already in recommendations
RECURSIVE AppendRecent(_, _, _)
AppendRecent(user_id, recommendations, recent) ==
    IF recent = <<>> THEN recommendations
    ELSE IF FallbackKeeps(user_id, Head(recent)) /\ Head(recent) \notin RecIds(recommendations)
         THEN AppendRecent(user_id, Append(recommendations, RecentRecord(Head(recent))),
                           Tail(recent))
    ELSE AppendRecent(user_id, recommendations, Tail(recent))

\* get_fallback_recommendations(user_id, limit), for the lists popular and
\* recent that get_popular_books(limit) and get_recent_books(limit) returned
GetFallbackRecommendations(user_id, limit, popular, recent) ==
    LET kept == FilterSeq(popular, {b \in BookIds : FallbackKeeps(user_id, b)})
        from_popular == [i \in 1..Len(kept) |-> PopularRecord(kept[i])]
        recommendations ==
            IF Len(from_popular) < limit
            THEN AppendRecent(user_id, from_popular, recent)
            ELSE from_popular
    IN  Take(recommendations, limit)

\* every result get_fallback_recommendations can return
FallbackResults(user_id, limit) ==
    {GetFallbackRecommendations(user_id, limit, popular, recent) :
        popular \in GetPopularBooksResults(limit), recent \in GetRecentBooksResults(limit)}

\* a faulty test that calls the fallback when either list is empty
NeedsFallbackOr(content_recs, collab_recs) == content_recs = <<>> \/ collab_recs = <<>>

\* if not content_recs and not collab_recs: the fallback is called
NeedsFallback(content_recs, collab_recs) == content_recs = <<>> /\ collab_recs = <<>>

\* get_recommendations(user_id, limit), for the lists the two engines returned
\* and the list the fallback returns if it is called
GetRecommendations(content_recs, collab_recs, fallback_recs) ==
    [content_based |-> content_recs,
     collaborative |-> collab_recs,
     fallback |-> IF NeedsFallback(content_recs, collab_recs) THEN fallback_recs ELSE <<>>]

\* every result get_recommendations can return
GetRecommendationsResults(user_id, limit) ==
    UNION {IF NeedsFallback(content_recs, collab_recs)
           THEN {GetRecommendations(content_recs, collab_recs, fallback_recs) :
                    fallback_recs \in FallbackResults(user_id, limit)}
           ELSE {GetRecommendations(content_recs, collab_recs, <<>>)} :
           content_recs \in ContentBasedResults(user_id, limit),
           collab_recs \in CollaborativeResults(user_id, limit)}

\* a faulty step that does not look at seen_ids
FeedStepUnseen(feed, source, idx) ==
    IF idx < Len(source) THEN Append(feed, source[idx + 1]) ELSE feed

\* one source of one pass of the interleaving loop: the item at idx (0-based)
\* is appended unless its book is in seen_ids
FeedStep(feed, source, idx) ==
    IF idx < Len(source) /\ source[idx + 1].book \notin RecIds(feed)
    THEN Append(feed, source[idx + 1])
    ELSE feed

\* a faulty pass that takes the collaborative item first
FeedPassCollabFirst(feed, all_recs, idx) ==
    FeedStep(FeedStep(FeedStep(feed, all_recs.collaborative, idx),
                      all_recs.content_based, idx),
             all_recs.fallback, idx)

\* one pass over the three sources
FeedPass(feed, all_recs, idx) ==
    FeedStep(FeedStep(FeedStep(feed, all_recs.content_based, idx),
                      all_recs.collaborative, idx),
             all_recs.fallback, idx)

\* while len(feed) < limit: ... if not added: break; idx += 1
RECURSIVE FeedLoop(_, _, _, _)
FeedLoop(feed, all_recs, limit, idx) ==
    IF ~(Len(feed) < limit) THEN feed
    ELSE LET next == FeedPass(feed, all_recs, idx) IN
         IF next = feed THEN feed ELSE FeedLoop(next, all_recs, limit, idx + 1)

\* get_personalized_home_feed(user_id, limit), for the result all_recs of its
\* call of get_recommendations(user_id, limit)
GetPersonalizedHomeFeed(all_recs, limit) == Take(FeedLoop(<<>>, all_recs, limit, 0), limit)

(***************************************************************************)
(* utils/validators.py                                                     *)
(***************************************************************************)
\* validate_rating(rating)
ValidateRating(rating) == ~(rating < MIN_RATING \/ rating > MAX_RATING)

\* validate_book_title(title) and validate_author(author): the value is
\* required and must not be blank
ValidateName(name) == name # <<>> /\ Len(Strip(name)) >= 1

\* validate_genres(genres)
ValidateGenres(genres) == genres # <<>> /\ \A g \in Range(genres) : g \in Range(GENRES)

\* normalize_title(title) and normalize_author(author)
NormalizeTitle(title) == IF title = <<>> THEN <<>> ELSE TitleCase(JoinSplit(Strip(title)))

(***************************************************************************)
(* The inputs of the operations.                                           *)
(***************************************************************************)
\* the usernames that register, in the order in which they first do
Registrants == <<"ann", "bob">>

\* a registration is tried for the next registrant or for a name that is taken
UserNames ==
    (IF Len(users) < Len(Registrants) THEN {Registrants[Len(users) + 1]} ELSE {})
        \cup {users[i].username : i \in DOMAIN users}

\* interest lists: none, two genres as GENRES spells them, and a list of a
\* blank label and a lower-case label with a leading blank
InterestInputs == {<<>>, << <<"S">>, <<"F">> >>, << <<" ">>, <<" ", "f">> >>}

\* the books that callers add, <<title, author, genres>>, in the order in which
\* they are first added
Catalogue ==
    << << <<"d">>, <<"a">>, << <<"S">>, <<"A">> >> >>,
       << <<"e">>, <<"a">>, << <<"F">> >> >>,
       << <<"u">>, <<"a">>, << <<"S">>, <<"A">> >> >> >>

\* inputs that add_book rejects when the first book is stored: its title in
\* another case, a blank title, a genre that GENRES does not hold
RejectedBookInputs ==
    {<< <<" ", "D">>, <<"A">>, << <<"F">> >> >>,
     << <<" ">>, <<"a">>, << <<"F">> >> >>,
     << <<"e">>, <<"a">>, << <<"f">> >> >>}

BookInputs ==
    (IF Len(books) < Len(Catalogue) THEN {Catalogue[Len(books) + 1]} ELSE {})
        \cup RejectedBookInputs

RatingInputs == {0, 2, 4, 5, 6}

Limits == 0..MaxLimit

\* the ids a caller passes: those of the stored rows and one that has no row
UserIdInputs == 1..(Len(users) + 1)

BookIdInputs == 1..(Len(books) + 1)

NoResult == [op |-> "none"]

\* the callers whose service calls can overlap, and the state in which none of
\* them has a call in progress
Callers == {"c1", "c2"}

Idle == [op |-> "idle"]

NoCalls == [c \in Callers |-> Idle]

(***************************************************************************)
(* The operations that write.                                              *)
(***************************************************************************)
\* auth.register_user(username, email, password, interests) with a valid
\* username, email and password: create_user fails on a username that exists
RegisterUser(username, interests) ==
    /\ result = NoResult
    /\ IF \E i \in UserIds : users[i].username = username
       THEN /\ result' = [op |-> "register_user", ok |-> FALSE]
            /\ UNCHANGED users
       ELSE /\ users' = Append(users, [username |-> username, interests |-> interests])
            /\ result' = [op |-> "register_user", ok |-> TRUE]
    /\ UNCHANGED <<books, ratings, sessions, calls, now, issued, argX, argY, prev>>

\* auth.update_interests(user_id, interests)
UpdateInterests(user_id, interests) ==
    /\ result = NoResult
    /\ IF interests = <<>> \/ ~UserExists(user_id)
       THEN /\ result' = [op |-> "update_interests", ok |-> FALSE]
            /\ UNCHANGED users
       ELSE /\ users' = [users EXCEPT ![user_id].interests = interests]
            /\ result' = [op |-> "update_interests", ok |-> TRUE]
    /\ UNCHANGED <<books, ratings, sessions, calls, now, issued, argX, argY, prev>>

\* check_book_exists(title, author)
CheckBookExists(title, author) ==
    \E b \in BookIds : /\ Lower(books[b].title) = Lower(title)
                       /\ Lower(books[b].author) = Lower(author)

\* BookService.add_book(title, author, genres)
AddBook(title, author, genres) ==
    /\ result = NoResult
    /\ IF /\ ValidateName(title)
          /\ ValidateName(author)
          /\ ValidateGenres(genres)
          /\ ~CheckBookExists(NormalizeTitle(title), NormalizeTitle(author))
       THEN /\ books' = Append(books, [title |-> NormalizeTitle(title),
                                       author |-> NormalizeTitle(author),
                                       genres |-> genres])
            /\ result' = [op |-> "add_book", ok |-> TRUE]
       ELSE /\ result' = [op |-> "add_book", ok |-> FALSE]
            /\ UNCHANGED books
    /\ UNCHANGED <<users, ratings, sessions, calls, now, issued, argX, argY, prev>>

\* BookService.rate_book(user_id, book_id, rating).  The insert of a rating
\* for a user id that has no row raises (FOREIGN KEY) and is rolled back.
RateBook(user_id, book_id, rating) ==
    /\ result = NoResult
    /\ IF ValidateRating(rating) /\ BookExists(book_id) /\ UserExists(user_id)
       THEN /\ \/ <<user_id, book_id>> \in DOMAIN ratings
               \/ Cardinality(DOMAIN ratings) < MaxRatings
            /\ ratings' = [p \in DOMAIN ratings \cup {<<user_id, book_id>>} |->
                              IF p = <<user_id, book_id>> THEN rating ELSE ratings[p]]
            /\ result' = [op |-> "rate_book", ok |-> TRUE]
       ELSE /\ result' = [op |-> "rate_book", ok |-> FALSE]
            /\ UNCHANGED ratings
    /\ UNCHANGED <<users, books, sessions, calls, now, issued, argX, argY, prev>>

(***************************************************************************)
(* The operations of RecommendationService that the callers use.           *)
(***************************************************************************)
CallGetRecommendations(user_id, limit) ==
    /\ result = NoResult
    /\ \E r \in GetRecommendationsResults(user_id, limit) :
           result' = [op |-> "get_recommendations", user_id |-> user_id, limit |-> limit,
                      content_based |-> r.content_based,
                      collaborative |-> r.collaborative,
                      fallback |-> r.fallback]
    /\ UNCHANGED <<users, books, ratings, sessions, calls, now, issued, argX, argY, prev>>

CallGetPersonalizedHomeFeed(user_id, limit) ==
    /\ result = NoResult
    /\ \E all_recs \in GetRecommendationsResults(user_id, limit) :
           result' = [op |-> "get_personalized_home_feed", user_id |-> user_id,
                      limit |-> limit, all_recs |-> all_recs,
                      feed |-> GetPersonalizedHomeFeed(all_recs, limit)]
    /\ UNCHANGED <<users, books, ratings, sessions, calls, now, issued, argX, argY, prev>>

\* app.py: the script run that made the call has rendered what the call
\* returned and ends; the next run makes the next call
Rerun ==
    /\ result # NoResult
    /\ result' = NoResult
    /\ UNCHANGED <<users, books, ratings, sessions, calls, now, issued, argX, argY, prev>>

Init ==
    /\ users = <<>>
    /\ books = <<>>
    /\ ratings = <<>>
    /\ sessions = <<>>
    /\ calls = NoCalls
    /\ now = StartOfTime
    /\ issued = 0
    /\ result = NoResult
    /\ argX = <<>>
    /\ argY = <<>>
    /\ prev = NoResult

Next ==
    \/ \E username \in UserNames, interests \in InterestInputs :
           RegisterUser(username, interests)
    \/ \E user_id \in UserIdInputs, interests \in InterestInputs :
           UpdateInterests(user_id, interests)
    \/ \E b \in BookInputs : AddBook(b[1], b[2], b[3])
    \/ \E user_id \in UserIdInputs, book_id \in BookIdInputs, rating \in RatingInputs :
           RateBook(user_id, book_id, rating)
    \/ \E user_id \in UserIdInputs, limit \in Limits :
           CallGetRecommendations(user_id, limit)
    \/ \E user_id \in UserIdInputs, limit \in Limits :
           CallGetPersonalizedHomeFeed(user_id, limit)
    \/ Rerun

Spec == Init /\ [][Next]_vars

(***************************************************************************)
(* The similarity utilities on their own: the inputs argX and argY are     *)
(* lists of labels, result is the last call and prev the call before it    *)
(* when that was a call of the same function.                              *)
(***************************************************************************)
\* labels: empty, blank, a genre, the genre in lower case after a blank, and
\* another genre
LabelPool == {<<>>, <<" ">>, <<"F">>, <<" ", "f">>, <<"S">>}

LabelLists == UNION {[1..n -> LabelPool] : n \in 0..MaxListLen}

\* a set as an iterable: its elements in some order
SetToSeq(S) == CHOOSE p \in Perms(S) : TRUE

CallJaccardSimilarity(set1, set2) ==
    /\ result' = [op |-> "jaccard_similarity", set1 |-> set1, set2 |-> set2,
                  value |-> JaccardSimilarity(set1, set2)]
    /\ prev' = NoResult
    /\ UNCHANGED <<users, books, ratings, sessions, calls, now, issued, argX, argY>>

CallNormalizeGenres(genres) ==
    /\ result' = [op |-> "normalize_genres", genres |-> genres,
                  value |-> NormalizeGenres(genres)]
    /\ prev' = IF result.op = "normalize_genres" THEN result ELSE NoResult
    /\ UNCHANGED <<users, books, ratings, sessions, calls, now, issued, argX, argY>>

CallCalculateGenreOverlap(user_interests, book_genres) ==
    /\ result' = [op |-> "calculate_genre_overlap", user_interests |-> user_interests,
                  book_genres |-> book_genres,
                  value |-> CalculateGenreOverlap(user_interests, book_genres)]
    /\ prev' = IF result.op = "calculate_genre_overlap" THEN result ELSE NoResult
    /\ UNCHANGED <<users, books, ratings, sessions, calls, now, issued, argX, argY>>

InitUtils ==
    /\ users = <<>>
    /\ books = <<>>
    /\ ratings = <<>>
    /\ sessions = <<>>
    /\ calls = NoCalls
    /\ now = StartOfTime
    /\ issued = 0
    /\ result = NoResult
    /\ prev = NoResult
    /\ argX \in LabelLists
    /\ argY \in LabelLists

NextUtils ==
    \/ \E a, b \in {argX, argY} : CallJaccardSimilarity(Range(a), Range(b))
    \/ CallNormalizeGenres(argX)
    \/ /\ result.op = "normalize_genres"
       /\ CallNormalizeGenres(SetToSeq(result.value))
    \/ \E a, b \in {argX, argY} : CallCalculateGenreOverlap(a, b)

SpecUtils == InitUtils /\ [][NextUtils]_vars

(***************************************************************************)
(* The engines and the service called one by one, on stores with up to     *)
(* three users, so that a user can have two peers.                         *)
(***************************************************************************)
\* the usernames that register, in the order in which they do
PeerRegistrants == <<"ann", "bob", "cat">>

\* the interest lists a registrant may choose
PeerInterestInputs(username) ==
    CASE username = "ann" -> {<< <<"S">>, <<"F">> >>}
      [] username = "bob" -> {<< <<"S">> >>, << <<" ">>, <<" ", "f">> >>}
      [] OTHER -> {<< <<"S">>, <<"F">>, <<"A">> >>, <<>>, << <<" ">> >>}

\* the books that callers add
PeerCatalogue == SubSeq(Catalogue, 1, 2)

PeerRatingInputs == {3, 4, 5}

\* find_similar_users(user_id)
CallFindSimilarUsers(user_id) ==
    /\ result = NoResult
    /\ \E similar_users \in FindSimilarUsersResults(user_id) :
           result' = [op |-> "find_similar_users", user_id |-> user_id,
                      value |-> similar_users]
    /\ UNCHANGED <<users, books, ratings, sessions, calls, now, issued, argX, argY, prev>>

\* get_content_based_recommendations(user_id, limit)
CallGetContentBasedRecommendations(user_id, limit) ==
    /\ result = NoResult
    /\ \E recs \in ContentBasedResults(user_id, limit) :
           result' = [op |-> "get_content_based_recommendations", user_id |-> user_id,
                      limit |-> limit, value |-> recs]
    /\ UNCHANGED <<users, books, ratings, sessions, calls, now, issued, argX, argY, prev>>

\* get_collaborative_recommendations(user_id, limit)
CallGetCollaborativeRecommendations(user_id, limit) ==
    /\ result = NoResult
    /\ \E recs \in CollaborativeResults(user_id, limit) :
           result' = [op |-> "get_collaborative_recommendations", user_id |-> user_id,
                      limit |-> limit, value |-> recs]
    /\ UNCHANGED <<users, books, ratings, sessions, calls, now, issued, argX, argY, prev>>

\* get_average_book_rating(book_id): round(AVG(rating), 2) in hundredths, 0
\* stands for None
GetAverageBookRating(book_id) ==
    IF RatingCount(book_id) > 0
    THEN RoundTo(Frac(RatingSum(book_id), RatingCount(book_id)), 100)
    ELSE 0

\* the clause of explain_recommendation for the genre overlap, if any
GenreClause(user_id, book_id) ==
    LET user_interests == {Lower(g) : g \in Range(users[user_id].interests)}
        book_genres == {Lower(g) : g \in Range(books[book_id].genres)}
        common == user_interests \cap book_genres
    IN  IF common # {}
        THEN <<[clause |-> "This book matches your interest in",
                genres |-> FilterSeq(books[book_id].genres,
                                     {g \in Range(books[book_id].genres) :
                                         Lower(g) \in common})]>>
        ELSE <<>>

\* for sim_user in similar_users[:5]: the clause for the first one that rated
\* the book >= 4, if any
RECURSIVE PeerClause(_, _)
PeerClause(similar_users, book_id) ==
    IF similar_users = <<>> THEN <<>>
    ELSE LET rating == GetUserRating(Head(similar_users).user_id, book_id)
         IN  IF rating # 0 /\ rating >= 4
             THEN <<[clause |-> "Readers with similar taste rated this", rating |-> rating]>>
             ELSE PeerClause(Tail(similar_users), book_id)

\* the clause for the overall average, if any
PopularClause(book_id) ==
    LET avg_rating == GetAverageBookRating(book_id)
    IN  IF avg_rating # 0 /\ avg_rating >= 400
        THEN <<[clause |-> "Highly rated by readers", avg |-> avg_rating]>>
        ELSE <<>>

\* explain_recommendation(user_id, book_id), for the list similar_users that
\* find_similar_users returned: None, the clauses joined by " * ", or the
\* generic sentence
ExplainRecommendation(user_id, book_id, similar_users) ==
    IF ~UserExists(user_id) \/ ~BookExists(book_id) THEN [kind |-> "None"]
    ELSE LET explanations ==
                 GenreClause(user_id, book_id)
                     \o PeerClause(Take(similar_users, 5), book_id)
                     \o PopularClause(book_id)
         IN  IF explanations # <<>>
             THEN [kind |-> "joined", clauses |-> explanations]
             ELSE [kind |-> "Based on your reading preferences"]

CallExplainRecommendation(user_id, book_id) ==
    /\ result = NoResult
    /\ \E similar_users \in FindSimilarUsersResults(user_id) :
           result' = [op |-> "explain_recommendation", user_id |-> user_id,
                      book_id |-> book_id,
                      value |-> ExplainRecommendation(user_id, book_id, similar_users)]
    /\ UNCHANGED <<users, books, ratings, sessions, calls, now, issued, argX, argY, prev>>

\* get_recommendation_stats(user_id), for the list similar_users that
\* find_similar_users returned
GetRecommendationStats(user_id, similar_users) ==
    IF ~UserExists(user_id) THEN [error |-> "User not found"]
    ELSE [user_id |-> user_id,
          interests_count |-> Len(users[user_id].interests),
          has_interests |-> Len(users[user_id].interests) > 0,
          books_rated |-> Cardinality(GetRatedBookIds(user_id)),
          similar_users_count |-> Len(similar_users),
          can_use_content_based |-> Len(users[user_id].interests) > 0,
          can_use_collaborative |-> Len(similar_users) > 0]

\* get_recommendation_stats with cleanup_expired_sessions() in front, as
\* validate_session has it
CallGetRecommendationStatsCleans(user_id) ==
    /\ result = NoResult
    /\ \E similar_users \in FindSimilarUsersResults(user_id) :
           result' = [op |-> "get_recommendation_stats", user_id |-> user_id,
                      value |-> GetRecommendationStats(user_id, similar_users)]
    /\ sessions' = CleanupExpiredSessions
    /\ UNCHANGED <<users, books, ratings, calls, now, issued, argX, argY, prev>>

CallGetRecommendationStats(user_id) ==
    /\ result = NoResult
    /\ \E similar_users \in FindSimilarUsersResults(user_id) :
           result' = [op |-> "get_recommendation_stats", user_id |-> user_id,
                      value |-> GetRecommendationStats(user_id, similar_users)]
    /\ UNCHANGED <<users, books, ratings, sessions, calls, now, issued, argX, argY, prev>>

(***************************************************************************)
(* The fallback and the similar-books query called on their own, on stores *)
(* of users without interests and up to three books.                       *)
(***************************************************************************)
CatalogueLimits == 0..(MaxLimit + 1)

CatalogueRatingInputs == {2, 5}

\* RecommendationService.get_fallback_recommendations(user_id, limit): the
\* recent list is fetched only if the popular step left the list short
CallGetFallbackRecommendations(user_id, limit) ==
    /\ result = NoResult
    /\ \E popular \in GetPopularBooksResults(limit) :
           LET short == Cardinality({i \in DOMAIN popular :
                                        FallbackKeeps(user_id, popular[i])}) < limit
           IN  \E recent \in (IF short THEN GetRecentBooksResults(limit) ELSE {<<>>}) :
                   result' = [op |-> "get_fallback_recommendations", user_id |-> user_id,
                              limit |-> limit, popular |-> popular,
                              fetched_recent |-> short, recent |-> recent,
                              value |-> GetFallbackRecommendations(user_id, limit,
                                                                   popular, recent)]
    /\ UNCHANGED <<users, books, ratings, sessions, calls, now, issued, argX, argY, prev>>

\* the explanation of a record of get_genre_based_recommendations
GenreReason(genres, book_genres) ==
    LET matching_genres == {Lower(g) : g \in Range(genres)}
                               \cap {Lower(g) : g \in Range(book_genres)}
        matching_list ==
            FilterSeq(book_genres, {g \in Range(book_genres) : Lower(g) \in matching_genres})
    IN  IF matching_list # <<>>
        THEN [text |-> "Matches:", genres |-> Take(matching_list, 3)]
        ELSE [text |-> "Related to your selection", genres |-> <<>>]

\* the record appended for one book
GenreRecord(genres, book_id) ==
    [book |-> book_id,
     score |-> Round3(CalculateGenreOverlap(genres, books[book_id].genres)),
     reason |-> GenreReason(genres, books[book_id].genres),
     recommendation_type |-> "content_based"]

\* a faulty loop test that does not skip the excluded books
GenreKeepsExcluded(genres, exclude_book_ids, book_id) ==
    AtLeastThreshold(CalculateGenreOverlap(genres, books[book_id].genres))

\* the loop over all_books: a book is skipped when it is excluded or its score
\* is below the threshold
GenreKeeps(genres, exclude_book_ids, book_id) ==
    /\ book_id \notin exclude_book_ids
    /\ AtLeastThreshold(CalculateGenreOverlap(genres, books[book_id].genres))

\* get_genre_based_recommendations(genres, exclude_book_ids, limit), for the
\* order all_books in which get_all_books() returned the books
GetGenreBasedRecommendations(genres, exclude_book_ids, limit, all_books) ==
    IF genres = <<>> THEN <<>>
    ELSE LET kept == FilterSeq(all_books,
                               {b \in BookIds : GenreKeeps(genres, exclude_book_ids, b)})
             recommendations == [i \in 1..Len(kept) |-> GenreRecord(genres, kept[i])]
         IN  Take(SortByScoreDesc(recommendations), limit)

\* every result RecommendationService.get_similar_books(book_id, limit) can
\* return
GetSimilarBooksResults(book_id, limit) ==
    IF ~BookExists(book_id) THEN {<<>>}
    ELSE {GetGenreBasedRecommendations(books[book_id].genres, {book_id}, limit, all_books) :
             all_books \in GetAllBooksOrders}

CallGetSimilarBooks(book_id, limit) ==
    /\ result = NoResult
    /\ \E recs \in GetSimilarBooksResults(book_id, limit) :
           result' = [op |-> "get_similar_books", book_id |-> book_id, limit |-> limit,
                      value |-> recs]
    /\ UNCHANGED <<users, books, ratings, sessions, calls, now, issued, argX, argY, prev>>

NextCatalogue ==
    \/ /\ Len(users) < Len(Registrants)
       /\ RegisterUser(Registrants[Len(users) + 1], <<>>)
    \/ /\ Len(books) < Len(Catalogue)
       /\ LET b == Catalogue[Len(books) + 1] IN AddBook(b[1], b[2], b[3])
    \/ \E user_id \in UserIdInputs, book_id \in BookIdInputs,
          rating \in CatalogueRatingInputs :
           RateBook(user_id, book_id, rating)
    \/ \E user_id \in UserIdInputs, limit \in CatalogueLimits :
           CallGetFallbackRecommendations(user_id, limit)
    \/ \E book_id \in BookIdInputs, limit \in CatalogueLimits :
           CallGetSimilarBooks(book_id, limit)
    \/ Rerun

SpecCatalogue == Init /\ [][NextCatalogue]_vars

\* the limit passed to the service operations on these stores
PeerServiceLimits == {MaxLimit}

\* the operations on stores of up to three users
NextPeers ==
    \/ /\ Len(users) < Len(PeerRegistrants)
       /\ \E interests \in PeerInterestInputs(PeerRegistrants[Len(users) + 1]) :
              RegisterUser(PeerRegistrants[Len(users) + 1], interests)
    \/ /\ Len(books) < Len(PeerCatalogue)
       /\ LET b == PeerCatalogue[Len(books) + 1] IN AddBook(b[1], b[2], b[3])
    \/ \E user_id \in UserIdInputs, book_id \in BookIdInputs, rating \in PeerRatingInputs :
           RateBook(user_id, book_id, rating)
    \/ \E user_id \in UserIdInputs : CallFindSimilarUsers(user_id)
    \/ \E user_id \in UserIdInputs, limit \in Limits :
           CallGetContentBasedRecommendations(user_id, limit)
    \/ \E user_id \in UserIdInputs, limit \in Limits :
           CallGetCollaborativeRecommendations(user_id, limit)
    \/ \E user_id \in UserIdInputs, limit \in PeerServiceLimits :
           CallGetRecommendations(user_id, limit)
    \/ \E user_id \in UserIdInputs, limit \in PeerServiceLimits :
           CallGetPersonalizedHomeFeed(user_id, limit)
    \/ \E book_id \in BookIdInputs, limit \in PeerServiceLimits :
           CallGetSimilarBooks(book_id, limit)
    \/ \E user_id \in UserIdInputs, book_id \in BookIdInputs :
           CallExplainRecommendation(user_id, book_id)
    \/ \E user_id \in UserIdInputs : CallGetRecommendationStats(user_id)
    \/ Rerun

SpecPeers == Init /\ [][NextPeers]_vars

(***************************************************************************)
(* auth.py: sessions, and the read operations of the service on stores     *)
(* that hold sessions.                                                     *)
(***************************************************************************)
\* the tokens secrets.token_urlsafe returns, in the order in which it does
SessionTokens == <<"t1", "t2">>

\* auth.login_user(username, password); password_ok says that verify_password
\* accepts the password
LoginUser(username, password, password_ok) ==
    /\ result = NoResult
    /\ issued < Len(SessionTokens)
    /\ IF /\ username # "" /\ password # ""
          /\ \E i \in UserIds : users[i].username = username
          /\ password_ok
       THEN LET token == SessionTokens[issued + 1]
                row == [user_id |-> CHOOSE i \in UserIds : users[i].username = username,
                        expires_at |-> IsoFormat(TimeAfter(now, SESSION_EXPIRY_HOURS))]
            IN  /\ sessions' = [t \in DOMAIN sessions \cup {token} |->
                                   IF t = token THEN row ELSE sessions[t]]
                /\ issued' = issued + 1
                /\ result' = [op |-> "login_user", ok |-> TRUE, session_token |-> token]
       ELSE /\ result' = [op |-> "login_user", ok |-> FALSE]
            /\ UNCHANGED <<sessions, issued>>
    /\ UNCHANGED <<users, books, ratings, calls, now, argX, argY, prev>>

\* an hour passes
Tick ==
    /\ result = NoResult
    /\ HoursOf(now) < MaxDay * HoursPerDay + HoursPerDay - 1
    /\ now' = TimeAfter(now, 1)
    /\ UNCHANGED <<users, books, ratings, sessions, issued, calls, result, argX, argY, prev>>

\* auth.validate_session(session_token): cleanup_expired_sessions(), then
\* get_session and get_user_by_id; user 0 stands for None
ValidateSession(session_token) ==
    /\ result = NoResult
    /\ IF session_token = ""
       THEN /\ result' = [op |-> "validate_session", session_token |-> session_token,
                          user |-> 0]
            /\ UNCHANGED sessions
       ELSE /\ sessions' = CleanupExpiredSessions
            /\ result' = [op |-> "validate_session", session_token |-> session_token,
                          user |-> IF SessionSelected(session_token)
                                   THEN sessions[session_token].user_id ELSE 0]
    /\ UNCHANGED <<users, books, ratings, calls, now, issued, argX, argY, prev>>

\* auth.logout_user(session_token): delete_session returns rowcount > 0
LogoutUser(session_token) ==
    /\ result = NoResult
    /\ sessions' = [t \in DOMAIN sessions \ {session_token} |-> sessions[t]]
    /\ result' = [op |-> "logout_user", session_token |-> session_token,
                  ok |-> session_token \in DOMAIN sessions]
    /\ UNCHANGED <<users, books, ratings, calls, now, issued, argX, argY, prev>>

\* the tokens a caller presents: the issued ones and the empty string
TokenInputs == Range(SessionTokens) \cup {""}

SessionRatingInputs == {5}

\* the operations on stores of two users with the same interests
NextSessions ==
    \/ /\ Len(users) < Len(Registrants)
       /\ RegisterUser(Registrants[Len(users) + 1], << <<"S">>, <<"F">> >>)
    \/ /\ Len(books) < Len(PeerCatalogue)
       /\ LET b == PeerCatalogue[Len(books) + 1] IN AddBook(b[1], b[2], b[3])
    \/ \E user_id \in UserIds, book_id \in BookIds, rating \in SessionRatingInputs :
           RateBook(user_id, book_id, rating)
    \/ \E username \in Range(Registrants) \cup {""}, password \in {"", "pw"},
          password_ok \in BOOLEAN :
           LoginUser(username, password, password_ok)
    \/ Tick
    \/ \E t \in TokenInputs : ValidateSession(t)
    \/ \E t \in TokenInputs : LogoutUser(t)
    \/ \E user_id \in UserIdInputs, limit \in PeerServiceLimits :
           CallGetRecommendations(user_id, limit)
    \/ \E user_id \in UserIdInputs, limit \in PeerServiceLimits :
           CallGetPersonalizedHomeFeed(user_id, limit)
    \/ \E book_id \in BookIdInputs, limit \in PeerServiceLimits :
           CallGetSimilarBooks(book_id, limit)
    \/ \E user_id \in UserIdInputs, book_id \in BookIdInputs :
           CallExplainRecommendation(user_id, book_id)
    \/ \E user_id \in UserIdInputs : CallGetRecommendationStats(user_id)
    \/ Rerun

SpecSessions == Init /\ [][NextSessions]_vars

(***************************************************************************)
(* Calls that overlap.  Every database.py function opens its own           *)
(* connection and commits when it returns (get_db), so a service call is a *)
(* sequence of atomic reads and writes, and the reads and writes of two    *)
(* callers interleave at the boundaries of those functions.                *)
(***************************************************************************)
\* the caller takes the result of a finished call
Return(c) ==
    /\ calls[c].op # "idle"
    /\ calls[c].pc = "done"
    /\ calls' = [calls EXCEPT ![c] = Idle]
    /\ UNCHANGED <<users, books, ratings, sessions, result, now, issued, argX, argY, prev>>

\* BookService.rate_book, up to and including db.get_book_by_id(book_id)
RateBookBegin(c, user_id, book_id, rating) ==
    /\ calls[c] = Idle
    /\ calls' = [calls EXCEPT ![c] =
                    [op |-> "rate_book", user_id |-> user_id, book_id |-> book_id,
                     rating |-> rating,
                     pc |-> IF ValidateRating(rating) /\ BookExists(book_id)
                            THEN "create_or_update_rating" ELSE "done",
                     ok |-> FALSE]]
    /\ UNCHANGED <<users, books, ratings, sessions, result, now, issued, argX, argY, prev>>

\* a faulty upsert that keeps the stored rating on a conflict (INSERT OR IGNORE)
RateBookWriteKeepsFirst(c) ==
    /\ calls[c].op = "rate_book"
    /\ calls[c].pc = "create_or_update_rating"
    /\ LET pair == <<calls[c].user_id, calls[c].book_id>>
       IN  IF UserExists(calls[c].user_id)
           THEN /\ ratings' = [p \in DOMAIN ratings \cup {pair} |->
                                  IF p \in DOMAIN ratings THEN ratings[p]
                                  ELSE calls[c].rating]
                /\ calls' = [calls EXCEPT ![c].pc = "done", ![c].ok = TRUE]
           ELSE /\ calls' = [calls EXCEPT ![c].pc = "done"]
                /\ UNCHANGED ratings
    /\ UNCHANGED <<users, books, sessions, result, now, issued, argX, argY, prev>>

\* BookService.rate_book from db.create_or_update_rating on: the upsert, which
\* raises and is rolled back for a user id that has no row (FOREIGN KEY)
RateBookWrite(c) ==
    /\ calls[c].op = "rate_book"
    /\ calls[c].pc = "create_or_update_rating"
    /\ LET pair == <<calls[c].user_id, calls[c].book_id>>
       IN  IF UserExists(calls[c].user_id)
           THEN /\ ratings' = [p \in DOMAIN ratings \cup {pair} |->
                                  IF p = pair THEN calls[c].rating ELSE ratings[p]]
                /\ calls' = [calls EXCEPT ![c].pc = "done", ![c].ok = TRUE]
           ELSE /\ calls' = [calls EXCEPT ![c].pc = "done"]
                /\ UNCHANGED ratings
    /\ UNCHANGED <<users, books, sessions, result, now, issued, argX, argY, prev>>

OverlapRatingInputs == {0, 2, 5}

\* two callers rate the books of a store of up to two users and two books
NextRatings ==
    \/ /\ Len(users) < Len(Registrants)
       /\ RegisterUser(Registrants[Len(users) + 1], << <<"S">> >>)
    \/ /\ Len(books) < Len(PeerCatalogue)
       /\ LET b == PeerCatalogue[Len(books) + 1] IN AddBook(b[1], b[2], b[3])
    \/ Rerun
    \/ \E c \in Callers, user_id \in UserIdInputs, book_id \in BookIdInputs,
          rating \in OverlapRatingInputs :
           RateBookBegin(c, user_id, book_id, rating)
    \/ \E c \in Callers : RateBookWrite(c)
    \/ \E c \in Callers : Return(c)

SpecRatings == Init /\ [][NextRatings]_vars

(***************************************************************************)
(* get_recommendation_stats read by read, with registrations and updates   *)
(* of interests committing between the reads.  Every database function     *)
(* opens its own connection, so a call sees the store as it is at each of  *)
(* its reads.                                                              *)
(***************************************************************************)
\* find_similar_users from get_all_users() on, for the interests of the target
\* that its db.get_user_by_id(user_id) returned
IsSimilarUserFor(user_id, interests, other) ==
    /\ other # user_id
    /\ NormalizeGenres(users[other].interests) # {}
    /\ AtLeastMinSimilarity(JaccardSimilarity(NormalizeGenres(interests),
                                              NormalizeGenres(users[other].interests)))

SimilarUserRecordFor(interests, other) ==
    LET target_interests == NormalizeGenres(interests)
        user_interests == NormalizeGenres(users[other].interests)
        common == target_interests \cap user_interests
    IN  [user_id |-> other,
         username |-> users[other].username,
         similarity |-> Round3(JaccardSimilarity(target_interests, user_interests)),
         common_interests |->
             FilterSeq(interests, {g \in Range(interests) : Lower(g) \in common})]

FindSimilarUsersFor(user_id, interests, all_users) ==
    LET kept == FilterSeq(all_users,
                          {o \in UserIds : IsSimilarUserFor(user_id, interests, o)})
    IN  SortBySimilarityDesc([i \in 1..Len(kept) |-> SimilarUserRecordFor(interests, kept[i])])

\* user = db.get_user_by_id(user_id), and the return for a missing user
StatsGetUser(c, user_id) ==
    /\ calls[c] = Idle
    /\ calls' = [calls EXCEPT ![c] =
                    IF UserExists(user_id)
                    THEN [op |-> "get_recommendation_stats", user_id |-> user_id,
                          pc |-> "find_similar_users", user |-> users[user_id],
                          target_interests |-> <<>>, similar_users |-> <<>>,
                          value |-> [error |-> "none"]]
                    ELSE [op |-> "get_recommendation_stats", user_id |-> user_id,
                          pc |-> "done", user |-> [username |-> "", interests |-> <<>>],
                          target_interests |-> <<>>, similar_users |-> <<>>,
                          value |-> [error |-> "User not found"]]]
    /\ UNCHANGED <<users, books, ratings, sessions, result, now, issued, argX, argY, prev>>

\* find_similar_users(user_id) up to get_all_users(): its own read of the
\* target user
StatsFindTarget(c) ==
    /\ calls[c].op = "get_recommendation_stats"
    /\ calls[c].pc = "find_similar_users"
    /\ calls' = [calls EXCEPT ![c] =
                    IF NormalizeGenres(users[calls[c].user_id].interests) = {}
                    THEN [@ EXCEPT !.pc = "get_rated_book_ids"]
                    ELSE [@ EXCEPT !.pc = "get_all_users",
                                   !.target_interests = users[calls[c].user_id].interests]]
    /\ UNCHANGED <<users, books, ratings, sessions, result, now, issued, argX, argY, prev>>

\* find_similar_users(user_id) from get_all_users() on
StatsGetAllUsers(c) ==
    /\ calls[c].op = "get_recommendation_stats"
    /\ calls[c].pc = "get_all_users"
    /\ \E all_users \in GetAllUsersOrders :
           calls' = [calls EXCEPT ![c].pc = "get_rated_book_ids",
                                  ![c].similar_users =
                                      FindSimilarUsersFor(calls[c].user_id,
                                                          calls[c].target_interests,
                                                          all_users)]
    /\ UNCHANGED <<users, books, ratings, sessions, result, now, issued, argX, argY, prev>>

\* rated_count = len(db.get_rated_book_ids(user_id)) and the returned dict
StatsGetRatedBookIds(c) ==
    /\ calls[c].op = "get_recommendation_stats"
    /\ calls[c].pc = "get_rated_book_ids"
    /\ LET user == calls[c].user
           similar_users == calls[c].similar_users
       IN  calls' = [calls EXCEPT
                        ![c].pc = "done",
                        ![c].value =
                            [user_id |-> calls[c].user_id,
                             interests_count |-> Len(user.interests),
                             has_interests |-> Len(user.interests) > 0,
                             books_rated |-> Cardinality(GetRatedBookIds(calls[c].user_id)),
                             similar_users_count |-> Len(similar_users),
                             can_use_content_based |-> Len(user.interests) > 0,
                             can_use_collaborative |-> Len(similar_users) > 0]]
    /\ UNCHANGED <<users, books, ratings, sessions, result, now, issued, argX, argY, prev>>

\* the interests a registrant may have and an update may set
StatsInterestInputs == {<<>>, << <<"S">> >>, << <<"F">> >>}

NextStats ==
    \/ /\ Len(users) < Len(Registrants)
       /\ \E interests \in StatsInterestInputs :
              RegisterUser(Registrants[Len(users) + 1], interests)
    \/ \E user_id \in UserIdInputs, interests \in StatsInterestInputs :
           UpdateInterests(user_id, interests)
    \/ Rerun
    \/ \E c \in Callers, user_id \in UserIdInputs : StatsGetUser(c, user_id)
    \/ \E c \in Callers : StatsFindTarget(c)
    \/ \E c \in Callers : StatsGetAllUsers(c)
    \/ \E c \in Callers : StatsGetRatedBookIds(c)
    \/ \E c \in Callers : Return(c)

SpecStats == Init /\ [][NextStats]_vars

(***************************************************************************)
(* get_recommendations read by read, with rate_book, update_interests,     *)
(* add_book and register_user calls committing between the reads.  Each    *)
(* engine works on what its own reads returned; a stored book is never     *)
(* changed, so its genres are those of the row that was read.  The reads   *)
(* of db.get_average_book_rating fill avg_rating, a field that the records *)
(* here do not carry.                                                      *)
(***************************************************************************)
\* the callers whose get_recommendations call is followed read by read
Readers == {"c1"}

\* a faulty membership test that takes no book for rated
InRatedBookIdsNever(book_id, rated_book_ids) == FALSE

\* book['id'] in rated_book_ids, for the set an engine built from its
\* db.get_rated_book_ids(user_id)
InRatedBookIds(book_id, rated_book_ids) == book_id \in rated_book_ids

\* get_content_based_recommendations from the loop over all_books on
ContentBasedFor(user_interests, rated_book_ids, limit, all_books) ==
    LET kept == FilterSeq(all_books,
                          {b \in BookIds :
                              /\ ~InRatedBookIds(b, rated_book_ids)
                              /\ AtLeastThreshold(
                                     CalculateGenreOverlap(user_interests, books[b].genres))})
        recommendations == [i \in 1..Len(kept) |-> ContentRecord(user_interests, kept[i])]
    IN  Take(SortByScoreDesc(recommendations), limit)

\* get_collaborative_recommendations from the scoring loop on
CollaborativeFor(rated_book_ids, limit, similar_users, highly_rated_books) ==
    IF highly_rated_books = <<>> THEN <<>>
    ELSE LET kept_rows ==
                 FilterSeq(highly_rated_books,
                           {r \in Range(highly_rated_books) :
                               ~InRatedBookIds(r.id, rated_book_ids)})
             keys == FirstOccurrences(kept_rows, {})
             recommendations ==
                 [i \in 1..Len(keys) |-> CollaborativeRecord(similar_users, kept_rows, keys[i])]
         IN  Take(SortByScoreDesc(recommendations), limit)

\* the rows of get_popular_books(limit), each with its rating_count
PopularRows(popular) ==
    [i \in DOMAIN popular |-> [id |-> popular[i], rating_count |-> RatingCount(popular[i])]]

RECURSIVE AppendRecentFor(_, _, _)
AppendRecentFor(rated_book_ids, recommendations, recent) ==
    IF recent = <<>> THEN recommendations
    ELSE IF /\ ~InRatedBookIds(Head(recent), rated_book_ids)
            /\ Head(recent) \notin RecIds(recommendations)
         THEN AppendRecentFor(rated_book_ids,
                              Append(recommendations, RecentRecord(Head(recent))),
                              Tail(recent))
    ELSE AppendRecentFor(rated_book_ids, recommendations, Tail(recent))

\* the records get_fallback_recommendations builds from the popular rows
FromPopular(rated_book_ids, popular) ==
    LET kept == FilterSeq(popular, {r \in Range(popular) :
                                       ~InRatedBookIds(r.id, rated_book_ids)})
    IN  [i \in 1..Len(kept) |->
            [book |-> kept[i].id,
             score |-> PopularScore,
             reason |-> IF kept[i].rating_count > 0 THEN "Popular among readers"
                        ELSE "Recently added",
             recommendation_type |-> "fallback"]]

\* get_recommendations is called: result = {'content_based': [], ...}.
\* rated_at_start is history, not a variable of the program: the books the user
\* had rated when the call began
RecsBegin(c, user_id, limit) ==
    /\ calls[c] = Idle
    /\ calls' = [calls EXCEPT ![c] =
                    [op |-> "get_recommendations", user_id |-> user_id, limit |-> limit,
                     pc |-> "content.get_user_by_id",
                     rated_at_start |-> GetRatedBookIds(user_id),
                     user_interests |-> <<>>, all_books |-> <<>>, rated_book_ids |-> {},
                     similar_users |-> <<>>, popular |-> <<>>,
                     content_based |-> <<>>, collaborative |-> <<>>, fallback |-> <<>>]]
    /\ UNCHANGED <<users, books, ratings, sessions, result, now, issued, argX, argY, prev>>

\* get_content_based_recommendations: user = db.get_user_by_id(user_id)
ContentGetUser(c) ==
    /\ calls[c].op = "get_recommendations"
    /\ calls[c].pc = "content.get_user_by_id"
    /\ calls' = [calls EXCEPT ![c] =
                    IF ~UserExists(calls[c].user_id)
                    THEN [@ EXCEPT !.pc = "collab.get_user_by_id"]
                    ELSE IF users[calls[c].user_id].interests = <<>>
                    THEN [@ EXCEPT !.pc = "collab.get_user_by_id"]
                    ELSE [@ EXCEPT !.pc = "content.get_all_books",
                                   !.user_interests = users[calls[c].user_id].interests]]
    /\ UNCHANGED <<users, books, ratings, sessions, result, now, issued, argX, argY, prev>>

\* all_books = db.get_all_books()
ContentGetAllBooks(c) ==
    /\ calls[c].op = "get_recommendations"
    /\ calls[c].pc = "content.get_all_books"
    /\ \E all_books \in GetAllBooksOrders :
           calls' = [calls EXCEPT ![c].pc = "content.get_rated_book_ids",
                                  ![c].all_books = all_books]
    /\ UNCHANGED <<users, books, ratings, sessions, result, now, issued, argX, argY, prev>>

\* rated_book_ids = set(db.get_rated_book_ids(user_id)) and the rest of
\* get_content_based_recommendations
ContentGetRatedBookIds(c) ==
    /\ calls[c].op = "get_recommendations"
    /\ calls[c].pc = "content.get_rated_book_ids"
    /\ calls' = [calls EXCEPT
                    ![c].pc = "collab.get_user_by_id",
                    ![c].content_based =
                        ContentBasedFor(calls[c].user_interests,
                                        GetRatedBookIds(calls[c].user_id),
                                        calls[c].limit, calls[c].all_books)]
    /\ UNCHANGED <<users, books, ratings, sessions, result, now, issued, argX, argY, prev>>

\* where get_recommendations goes on when get_collaborative_recommendations
\* has returned collab_recs
AfterEngines(call, collab_recs) ==
    [call EXCEPT !.collaborative = collab_recs,
                 !.pc = IF NeedsFallback(call.content_based, collab_recs)
                        THEN "fallback.get_rated_book_ids" ELSE "done"]

\* get_collaborative_recommendations: find_similar_users up to get_all_users()
CollabGetUser(c) ==
    /\ calls[c].op = "get_recommendations"
    /\ calls[c].pc = "collab.get_user_by_id"
    /\ calls' = [calls EXCEPT ![c] =
                    IF ~UserExists(calls[c].user_id)
                    THEN AfterEngines(@, <<>>)
                    ELSE IF NormalizeGenres(users[calls[c].user_id].interests) = {}
                    THEN AfterEngines(@, <<>>)
                    ELSE [@ EXCEPT !.pc = "collab.get_all_users",
                                   !.user_interests = users[calls[c].user_id].interests]]
    /\ UNCHANGED <<users, books, ratings, sessions, result, now, issued, argX, argY, prev>>

\* find_similar_users from get_all_users() on
CollabGetAllUsers(c) ==
    /\ calls[c].op = "get_recommendations"
    /\ calls[c].pc = "collab.get_all_users"
    /\ \E all_users \in GetAllUsersOrders :
           LET similar_users == FindSimilarUsersFor(calls[c].user_id,
                                                    calls[c].user_interests, all_users)
           IN  calls' = [calls EXCEPT ![c] =
                            IF similar_users = <<>> THEN AfterEngines(@, <<>>)
                            ELSE [@ EXCEPT !.pc = "collab.get_rated_book_ids",
                                           !.similar_users = similar_users]]
    /\ UNCHANGED <<users, books, ratings, sessions, result, now, issued, argX, argY, prev>>

\* rated_book_ids = set(db.get_rated_book_ids(user_id))
CollabGetRatedBookIds(c) ==
    /\ calls[c].op = "get_recommendations"
    /\ calls[c].pc = "collab.get_rated_book_ids"
    /\ calls' = [calls EXCEPT ![c].pc = "collab.get_high_rated_books_by_users",
                              ![c].rated_book_ids = GetRatedBookIds(calls[c].user_id)]
    /\ UNCHANGED <<users, books, ratings, sessions, result, now, issued, argX, argY, prev>>

\* highly_rated_books = db.get_high_rated_books_by_users(...) and the rest of
\* get_collaborative_recommendations
CollabGetHighRatedBooks(c) ==
    /\ calls[c].op = "get_recommendations"
    /\ calls[c].pc = "collab.get_high_rated_books_by_users"
    /\ \E rows \in GetHighRatedBooksByUsersResults(
                       {calls[c].similar_users[i].user_id :
                           i \in DOMAIN calls[c].similar_users}, HighRatingMin) :
           calls' = [calls EXCEPT ![c] =
                        AfterEngines(@, CollaborativeFor(calls[c].rated_book_ids,
                                                         calls[c].limit,
                                                         calls[c].similar_users, rows))]
    /\ UNCHANGED <<users, books, ratings, sessions, result, now, issued, argX, argY, prev>>

\* get_fallback_recommendations: rated_book_ids = set(db.get_rated_book_ids(user_id))
FallbackGetRatedBookIds(c) ==
    /\ calls[c].op = "get_recommendations"
    /\ calls[c].pc = "fallback.get_rated_book_ids"
    /\ calls' = [calls EXCEPT ![c].pc = "fallback.get_popular_books",
                              ![c].rated_book_ids = GetRatedBookIds(calls[c].user_id)]
    /\ UNCHANGED <<users, books, ratings, sessions, result, now, issued, argX, argY, prev>>

\* popular = db.get_popular_books(limit) and the loop over it
FallbackGetPopularBooks(c) ==
    /\ calls[c].op = "get_recommendations"
    /\ calls[c].pc = "fallback.get_popular_books"
    /\ \E popular \in GetPopularBooksResults(calls[c].limit) :
           LET recommendations == FromPopular(calls[c].rated_book_ids, PopularRows(popular))
           IN  calls' = [calls EXCEPT
                            ![c].fallback = Take(recommendations, calls[c].limit),
                            ![c].pc = IF Len(recommendations) < calls[c].limit
                                      THEN "fallback.get_recent_books" ELSE "done"]
    /\ UNCHANGED <<users, books, ratings, sessions, result, now, issued, argX, argY, prev>>

\* recent = db.get_recent_books(limit) and the loop over it
FallbackGetRecentBooks(c) ==
    /\ calls[c].op = "get_recommendations"
    /\ calls[c].pc = "fallback.get_recent_books"
    /\ \E recent \in GetRecentBooksResults(calls[c].limit) :
           calls' = [calls EXCEPT
                        ![c].fallback = Take(AppendRecentFor(calls[c].rated_book_ids,
                                                             calls[c].fallback, recent),
                                             calls[c].limit),
                        ![c].pc = "done"]
    /\ UNCHANGED <<users, books, ratings, sessions, result, now, issued, argX, argY, prev>>

\* the interests a registrant may have and an update may set
RecsInterestInputs == {<<>>, << <<"S">> >>}

RecsRatingInputs == {MAX_RATING}

NextRecs ==
    \/ /\ Len(users) < Len(Registrants)
       /\ \E interests \in RecsInterestInputs :
              RegisterUser(Registrants[Len(users) + 1], interests)
    \/ \E user_id \in UserIdInputs, interests \in RecsInterestInputs :
           UpdateInterests(user_id, interests)
    \/ /\ Len(books) < Len(PeerCatalogue)
       /\ LET b == PeerCatalogue[Len(books) + 1] IN AddBook(b[1], b[2], b[3])
    \/ \E user_id \in UserIdInputs, book_id \in BookIdInputs, rating \in RecsRatingInputs :
           RateBook(user_id, book_id, rating)
    \/ Rerun
    \/ \E c \in Readers, user_id \in UserIdInputs : RecsBegin(c, user_id, MaxLimit)
    \/ \E c \in Readers : ContentGetUser(c)
    \/ \E c \in Readers : ContentGetAllBooks(c)
    \/ \E c \in Readers : ContentGetRatedBookIds(c)
    \/ \E c \in Readers : CollabGetUser(c)
    \/ \E c \in Readers : CollabGetAllUsers(c)
    \/ \E c \in Readers : CollabGetRatedBookIds(c)
    \/ \E c \in Readers : CollabGetHighRatedBooks(c)
    \/ \E c \in Readers : FallbackGetRatedBookIds(c)
    \/ \E c \in Readers : FallbackGetPopularBooks(c)
    \/ \E c \in Readers : FallbackGetRecentBooks(c)
    \/ \E c \in Readers : Return(c)

SpecRecs == Init /\ [][NextRecs]_vars

(***************************************************************************)
(* BookService.add_book by overlapping callers: the check_book_exists read *)
(* and the create_book insert are two transactions, and another caller's   *)
(* insert can commit between them.  book_id 0 stands for None.             *)
(***************************************************************************)
\* UNIQUE(title, author) of the books table: the columns compare byte by byte
UniqueTitleAuthorHolds(title, author) ==
    \A b \in BookIds : ~(books[b].title = title /\ books[b].author = author)

\* BookService.add_book up to and including db.check_book_exists
AddBookCheck(c, title, author, genres) ==
    /\ calls[c] = Idle
    /\ LET valid == ValidateName(title) /\ ValidateName(author) /\ ValidateGenres(genres)
           found == valid /\ CheckBookExists(NormalizeTitle(title), NormalizeTitle(author))
       IN  calls' = [calls EXCEPT ![c] =
                        [op |-> "add_book",
                         title |-> NormalizeTitle(title),
                         author |-> NormalizeTitle(author),
                         genres |-> genres,
                         valid |-> valid,
                         found |-> found,
                         pc |-> IF valid /\ ~found THEN "create_book" ELSE "done",
                         ok |-> FALSE,
                         book_id |-> 0]]
    /\ UNCHANGED <<users, books, ratings, sessions, result, now, issued, argX, argY, prev>>

\* a faulty insert into a table that lacks UNIQUE(title, author)
AddBookCreateNoUnique(c) ==
    /\ calls[c].op = "add_book"
    /\ calls[c].pc = "create_book"
    /\ books' = Append(books, [title |-> calls[c].title, author |-> calls[c].author,
                               genres |-> calls[c].genres])
    /\ calls' = [calls EXCEPT ![c].pc = "done", ![c].ok = TRUE,
                              ![c].book_id = Len(books) + 1]
    /\ UNCHANGED <<users, ratings, sessions, result, now, issued, argX, argY, prev>>

\* BookService.add_book from db.create_book on: the INSERT, which raises
\* sqlite3.IntegrityError on UNIQUE(title, author), and create_book then
\* returns None
AddBookCreate(c) ==
    /\ calls[c].op = "add_book"
    /\ calls[c].pc = "create_book"
    /\ IF UniqueTitleAuthorHolds(calls[c].title, calls[c].author)
       THEN /\ books' = Append(books, [title |-> calls[c].title, author |-> calls[c].author,
                                       genres |-> calls[c].genres])
            /\ calls' = [calls EXCEPT ![c].pc = "done", ![c].ok = TRUE,
                                      ![c].book_id = Len(books) + 1]
       ELSE /\ calls' = [calls EXCEPT ![c].pc = "done"]
            /\ UNCHANGED books
    /\ UNCHANGED <<users, ratings, sessions, result, now, issued, argX, argY, prev>>

\* the books the callers add: those of the catalogue, the first of them in
\* another spelling, and a blank title
OverlapBookInputs ==
    Range(Catalogue)
        \cup {<< <<" ", "D">>, <<"A">>, << <<"F">> >> >>,
              << <<" ">>, <<"a">>, << <<"F">> >> >>}

NextBooks ==
    \/ \E c \in Callers, b \in OverlapBookInputs : AddBookCheck(c, b[1], b[2], b[3])
    \/ \E c \in Callers : AddBookCreate(c)
    \/ \E c \in Callers : Return(c)

SpecBooks == Init /\ [][NextBooks]_vars

(***************************************************************************)
(* The home feed on stores of two users with the same interests and up to  *)
(* three books, asked for one item more than the other stores are.         *)
(***************************************************************************)
FeedLimit == MaxLimit + 1

FeedInterests == << <<"S">>, <<"F">> >>

FeedRatingInputs == {4, 5}

NextFeed ==
    \/ /\ Len(users) < Len(Registrants)
       /\ RegisterUser(Registrants[Len(users) + 1], FeedInterests)
    \/ /\ Len(books) < Len(Catalogue)
       /\ LET b == Catalogue[Len(books) + 1] IN AddBook(b[1], b[2], b[3])
    \/ \E user_id \in UserIdInputs, book_id \in BookIdInputs, rating \in FeedRatingInputs :
           RateBook(user_id, book_id, rating)
    \/ \E user_id \in UserIdInputs : CallGetPersonalizedHomeFeed(user_id, FeedLimit)
    \/ Rerun

SpecFeed == Init /\ [][NextFeed]_vars

(***************************************************************************)
(* Python floats (IEEE 754 binary64) where the order of the additions can  *)
(* matter.  A positive float is [m, e] of value m * 2^e: m is its 53-bit   *)
(* significand, held as a list of 14-bit limbs, least significant first;   *)
(* 0.0 has the empty list.  Every operation rounds the exact result to the *)
(* nearest float, ties to the even significand.                            *)
(***************************************************************************)
SignificandBits == 53

LimbBits == 2 * 7

LimbBase == 2^LimbBits

FloatZero == [m |-> <<>>, e |-> 0]

Limb(a, i) == IF i \in DOMAIN a THEN a[i] ELSE 0

\* the limbs of a list of column sums, carries propagated
RECURSIVE Carry(_, _)
Carry(a, c) ==
    IF a = <<>>
    THEN IF c = 0 THEN <<>> ELSE <<c % LimbBase>> \o Carry(<<>>, c \div LimbBase)
    ELSE <<(Head(a) + c) % LimbBase>> \o Carry(Tail(a), (Head(a) + c) \div LimbBase)

\* without the zero limbs at the high end
RECURSIVE Trim(_)
Trim(a) ==
    IF a # <<>> /\ a[Len(a)] = 0 THEN Trim(SubSeq(a, 1, Len(a) - 1)) ELSE a

BigAdd(a, b) ==
    LET n == IF Len(a) > Len(b) THEN Len(a) ELSE Len(b)
    IN  Trim(Carry([i \in 1..n |-> Limb(a, i) + Limb(b, i)], 0))

\* a[1] * b[k] + ... + a[i] * b[k - i + 1]
RECURSIVE ColumnSum(_, _, _, _)
ColumnSum(a, b, k, i) ==
    IF i = 0 THEN 0 ELSE a[i] * Limb(b, k - i + 1) + ColumnSum(a, b, k, i - 1)

BigMul(a, b) ==
    Trim(Carry([k \in 1..(Len(a) + Len(b) - 1) |-> ColumnSum(a, b, k, Len(a))], 0))

\* a * 2^n
ShiftLeft(a, n) ==
    LET q == n \div LimbBits
        r == n % LimbBits
    IN  Trim(Carry([i \in 1..(Len(a) + q) |-> IF i <= q THEN 0 ELSE a[i - q] * 2^r], 0))

\* a \div 2^n
ShiftRight(a, n) ==
    LET q == n \div LimbBits
        r == n % LimbBits
    IN  IF Len(a) <= q THEN <<>>
        ELSE Trim([i \in 1..(Len(a) - q) |->
                      (a[i + q] \div 2^r) + (Limb(a, i + q + 1) % 2^r) * 2^(LimbBits - r)])

\* a % 2^n = 0
LowBitsZero(a, n) ==
    /\ \A i \in DOMAIN a : i <= n \div LimbBits => a[i] = 0
    /\ Limb(a, n \div LimbBits + 1) % 2^(n % LimbBits) = 0

\* bit n of a, bit 0 the lowest
BitAt(a, n) == (Limb(a, n \div LimbBits + 1) \div 2^(n % LimbBits)) % 2

BitLength(a) ==
    IF a = <<>> THEN 0
    ELSE LimbBits * (Len(a) - 1)
             + (CHOOSE k \in 1..LimbBits : 2^(k - 1) <= a[Len(a)] /\ a[Len(a)] < 2^k)

\* the float nearest to the exact value a * 2^e, plus a fraction of 2^e that is
\* not 0 if inexact
RoundToFloat(a, e, inexact) ==
    IF a = <<>> THEN FloatZero
    ELSE IF BitLength(a) <= SignificandBits
    THEN [m |-> ShiftLeft(a, SignificandBits - BitLength(a)),
          e |-> e - (SignificandBits - BitLength(a))]
    ELSE LET t == BitLength(a) - SignificandBits
             kept == ShiftRight(a, t)
             above == inexact \/ ~LowBitsZero(a, t - 1)
             up == BitAt(a, t - 1) = 1 /\ (above \/ kept[1] % 2 = 1)
             rounded == IF up THEN BigAdd(kept, <<1>>) ELSE kept
         IN  IF BitLength(rounded) > SignificandBits
             THEN [m |-> ShiftRight(rounded, 1), e |-> e + t + 1]
             ELSE [m |-> rounded, e |-> e + t]

\* x + y
FloatAdd(x, y) ==
    IF x.m = <<>> THEN y
    ELSE IF y.m = <<>> THEN x
    ELSE LET big == IF x.e >= y.e THEN x ELSE y
             small == IF x.e >= y.e THEN y ELSE x
             d == big.e - small.e
         IN  IF d > SignificandBits + 1 THEN big
             ELSE RoundToFloat(BigAdd(ShiftLeft(big.m, d), small.m), small.e, FALSE)

\* x * y
FloatMul(x, y) ==
    IF x.m = <<>> \/ y.m = <<>> THEN FloatZero
    ELSE RoundToFloat(BigMul(x.m, y.m), x.e + y.e, FALSE)

\* count limbs of r / d after the point, most significant first, and what
\* remains
RECURSIVE DivLimbs(_, _, _)
DivLimbs(r, d, count) ==
    IF count = 0 THEN [limbs |-> <<>>, r |-> r]
    ELSE LET rest == DivLimbs((r * LimbBase) % d, d, count - 1)
         IN  [limbs |-> <<(r * LimbBase) \div d>> \o rest.limbs, r |-> rest.r]

\* how often n is doubled until it reaches d
RECURSIVE Doublings(_, _)
Doublings(n, d) == IF n >= d THEN 0 ELSE 1 + Doublings(2 * n, d)

\* the float nearest to n / d, for integers 0 <= n <= d: the value of n / d
\* for two floats that hold n and d, and the float that round(x, 3) returns
\* for n thousandths
FloatOfRatio(n, d) ==
    IF n = 0 THEN FloatZero
    ELSE LET s == Doublings(n, d)
             q == DivLimbs(n * 2^s - d, d, 4)
             a == <<q.limbs[4], q.limbs[3], q.limbs[2], q.limbs[1], 1>>
         IN  RoundToFloat(a, 0 - (s + 4 * LimbBits), q.r # 0)

\* x > y
FloatGreater(x, y) ==
    IF x.m = <<>> THEN FALSE
    ELSE IF y.m = <<>> THEN TRUE
    ELSE \/ x.e > y.e
         \/ /\ x.e = y.e
            /\ \E i \in DOMAIN x.m :
                   /\ x.m[i] > y.m[i]
                   /\ \A j \in DOMAIN x.m : j > i => x.m[j] = y.m[j]

(***************************************************************************)
(* The scoring loop of get_collaborative_recommendations for one book, in  *)
(* floats: argX is similar_users, argY the rows of highly_rated_books for  *)
(* the book that the loop has not reached yet, result the entry of         *)
(* book_scores.  Similarities are in thousandths, as round(similarity, 3)  *)
(* left them.                                                              *)
(***************************************************************************)
\* a faulty weight that leaves out the factor rating / 5.0
WeightedScoreUnscaled(similarity, rating) == FloatOfRatio(similarity, 1000)

\* weighted_score = similarity * (rating / 5.0)
WeightedScore(similarity, rating) ==
    FloatMul(FloatOfRatio(similarity, 1000), FloatOfRatio(rating, MAX_RATING))

\* max_possible = sum(u['similarity'] for u in similar_users): 0 + s1 + s2 + ...
RECURSIVE MaxPossible(_)
MaxPossible(similar_users) ==
    IF similar_users = <<>> THEN FloatZero
    ELSE FloatAdd(MaxPossible(SubSeq(similar_users, 1, Len(similar_users) - 1)),
                  FloatOfRatio(similar_users[Len(similar_users)].similarity, 1000))

\* one pass of the loop over highly_rated_books
ScoreRow ==
    /\ result.op = "book_scores"
    /\ argY # <<>>
    /\ LET item == Head(argY)
           similarity == SimilarityOf(argX, item.rated_by_user_id)
       IN  result' = [result EXCEPT
                         !.score = FloatAdd(@, WeightedScore(similarity, item.rating)),
                         !.contributors = Append(@, [user_id |-> item.rated_by_user_id,
                                                     rating |-> item.rating,
                                                     similarity |-> similarity])]
    /\ argY' = Tail(argY)
    /\ UNCHANGED <<users, books, ratings, sessions, now, issued, calls, argX, prev>>

\* the similarities of three kept peers: round(3/14, 3), round(4/15, 3) and
\* round(3/7, 3)
ScoringSimilarities == {214, 267, 429}

ScoringPeers == 2..4

\* the lists find_similar_users can return for the three peers, sorted by
\* similarity descending
ScoringSimilarUsers ==
    {l \in [1..Cardinality(ScoringPeers) ->
               [user_id : ScoringPeers, similarity : ScoringSimilarities]] :
        /\ \A i \in DOMAIN l : l[i].user_id = i + 1
        /\ \A i, j \in DOMAIN l : i < j => l[i].similarity >= l[j].similarity}

\* the rows get_high_rated_books_by_users can return for book 1 when each peer
\* rated it 4 or 5: ORDER BY r.rating DESC, ties in any order
ScoringRows ==
    UNION {{p \in Perms({[id |-> 1, rated_by_user_id |-> u, rating |-> f[u]] :
                            u \in ScoringPeers}) :
               \A i, j \in DOMAIN p : i < j => p[i].rating >= p[j].rating} :
           f \in [ScoringPeers -> HighRatingMin..MAX_RATING]}

InitScoring ==
    /\ users = <<>>
    /\ books = <<>>
    /\ ratings = <<>>
    /\ sessions = <<>>
    /\ calls = NoCalls
    /\ now = StartOfTime
    /\ issued = 0
    /\ prev = NoResult
    /\ argX \in ScoringSimilarUsers
    /\ argY \in ScoringRows
    /\ result = [op |-> "book_scores", score |-> FloatZero, contributors |-> <<>>]

NextScoring == ScoreRow

SpecScoring == InitScoring /\ [][NextScoring]_vars

(***************************************************************************)
(* Properties of get_recommendations and get_personalized_home_feed        *)
(***************************************************************************)
\* the three lists of a get_recommendations result
ListsOf(r) == {r.content_based, r.collaborative, r.fallback}

\* C1: no record of the content_based, collaborative or fallback list that
\* get_recommendations(U, limit) returns references a book U has rated
C1_NoRatedBook ==
    result.op = "get_recommendations" =>
        \A l \in ListsOf(result) : \A i \in DOMAIN l :
            <<result.user_id, l[i].book>> \notin DOMAIN ratings

\* a call for a user with interests who has rated a book that matches them
C1_Witness ==
    /\ result.op = "get_recommendations"
    /\ result.limit > 0
    /\ UserExists(result.user_id)
    /\ users[result.user_id].interests # <<>>
    /\ \E b \in GetRatedBookIds(result.user_id) :
           AtLeastThreshold(CalculateGenreOverlap(users[result.user_id].interests,
                                                  books[b].genres))
    /\ result.content_based # <<>>

\* C2: the fallback list of a get_recommendations result is non-empty only if
\* the content_based and the collaborative list are both empty
C2_FallbackOnlyIfBothEmpty ==
    result.op = "get_recommendations" =>
        (result.fallback # <<>> =>
            result.content_based = <<>> /\ result.collaborative = <<>>)

\* a call whose content-based list is non-empty while the collaborative list is
\* empty: the unrated books the fallback would list are not listed
C2_Witness ==
    /\ result.op = "get_recommendations"
    /\ result.content_based # <<>>
    /\ result.collaborative = <<>>
    /\ result.fallback = <<>>

\* C3: for limit >= 0 each of the three lists of get_recommendations and the
\* home feed has at most limit entries
C3_AtMostLimit ==
    /\ result.op = "get_recommendations" =>
           \A l \in ListsOf(result) : Len(l) <= result.limit
    /\ result.op = "get_personalized_home_feed" => Len(result.feed) <= result.limit

\* a call with more qualifying books than limit, so that the list is cut
C3_Witness ==
    /\ result.op = "get_recommendations"
    /\ result.limit > 0
    /\ UserExists(result.user_id)
    /\ users[result.user_id].interests # <<>>
    /\ Cardinality({b \in BookIds : ContentKeeps(result.user_id, b)}) > result.limit
    /\ Len(result.content_based) = result.limit

\* C4: within each list of a get_recommendations result the scores are
\* non-increasing from first to last (in the fallback list the popular records
\* precede the recent ones)
C4_ScoresNonIncreasing ==
    result.op = "get_recommendations" =>
        \A l \in ListsOf(result) : \A i, j \in DOMAIN l :
            i < j => l[i].score >= l[j].score

\* a content-based list of two records of different scores
C4_Witness ==
    /\ result.op = "get_recommendations"
    /\ Len(result.content_based) = 2
    /\ result.content_based[1].score > result.content_based[2].score

\* C5: the home feed never holds two records of the same book id, also when a
\* book is in both the content_based and the collaborative list
C5_FeedNoDuplicate ==
    result.op = "get_personalized_home_feed" =>
        \A i, j \in DOMAIN result.feed :
            i # j => result.feed[i].book # result.feed[j].book

\* a feed built from a content-based and a collaborative list that share a book
C5_Witness ==
    /\ result.op = "get_personalized_home_feed"
    /\ RecIds(result.all_recs.content_based) \cap RecIds(result.all_recs.collaborative) # {}
    /\ Len(result.feed) >= 2

\* C6: every record of the three lists has a score s with 0 <= s <= 1 (scores
\* are in thousandths)
C6_ScoreRange ==
    result.op = "get_recommendations" =>
        \A l \in ListsOf(result) : \A i \in DOMAIN l :
            0 <= l[i].score /\ l[i].score <= 1000

\* a collaborative record at the upper end of the range
C6_Witness ==
    /\ result.op = "get_recommendations"
    /\ \E i \in DOMAIN result.collaborative : result.collaborative[i].score = 1000

(***************************************************************************)
(* Properties of the similarity utilities                                  *)
(***************************************************************************)
\* C7: jaccard_similarity is 0 for two sets with no common element, 1 for
\* (A, A) with A non-empty, and 0 when both sets are empty
C7_JaccardCases ==
    result.op = "jaccard_similarity" =>
        /\ result.set1 \cap result.set2 = {} => result.value = Frac(0, 1)
        /\ (result.set1 = result.set2 /\ result.set1 # {}) => result.value = Frac(1, 1)
        /\ (result.set1 = {} /\ result.set2 = {}) => result.value = Frac(0, 1)

\* a call with the same non-empty set twice
C7_Witness ==
    /\ result.op = "jaccard_similarity"
    /\ result.set1 = result.set2
    /\ result.set1 # {}
    /\ result.value = Frac(1, 1)

\* two labels differ only in letter case or leading and trailing whitespace
VariantLabel(a, b) == Strip(Lower(a)) = Strip(Lower(b))

\* two lists differ only by such variants of their labels
VariantLists(x, y) == Len(x) = Len(y) /\ \A i \in DOMAIN x : VariantLabel(x[i], y[i])

\* C8: calculate_genre_overlap(X, Y) = calculate_genre_overlap(Y, X), and
\* replacing labels by variants that differ only in letter case or in leading
\* and trailing whitespace does not change the result
C8_OverlapSymmetricVariantInsensitive ==
    (result.op = "calculate_genre_overlap" /\ prev.op = "calculate_genre_overlap") =>
        /\ (result.user_interests = prev.book_genres
               /\ result.book_genres = prev.user_interests) => result.value = prev.value
        /\ (VariantLists(result.user_interests, prev.user_interests)
               /\ VariantLists(result.book_genres, prev.book_genres))
               => result.value = prev.value

\* C9: normalize_genres is idempotent (normalising its output yields the same
\* set) and its result never contains the empty string
C9_NormalizeIdempotentNoEmpty ==
    result.op = "normalize_genres" =>
        /\ <<>> \notin result.value
        /\ (prev.op = "normalize_genres" /\ result.genres = SetToSeq(prev.value))
               => result.value = prev.value

\* the normalisation n of the content-based rule: lower case, trimmed, empty
\* entries dropped
TrimmedLabels(genres) == {Strip(Lower(genres[i])) : i \in DOMAIN genres} \ {<<>>}

\* |n(I) & n(G)| / |n(I) | n(G)| for the interests I of the user and the genres
\* G of the book
RatioOf(user_id, book_id) ==
    JaccardSimilarity(TrimmedLabels(users[user_id].interests),
                      TrimmedLabels(books[book_id].genres))

\* the books the user has not rated whose ratio is at least 0.1
QualifyingBooks(user_id) ==
    {b \in BookIds : /\ <<user_id, b>> \notin DOMAIN ratings
                     /\ AtLeastThreshold(RatioOf(user_id, b))}

\* C10: for a user with interests the content-based list holds exactly the
\* unrated books whose ratio is at least 0.1, each once with the ratio rounded
\* to three decimals as its score; with a smaller limit it holds limit of
\* them and no omitted book has a strictly higher score than a listed one
C10_ContentBasedExact ==
    (result.op = "get_recommendations" /\ UserExists(result.user_id)) =>
        LET recs == result.content_based
            qualifying == QualifyingBooks(result.user_id)
        IN  /\ \A i \in DOMAIN recs :
                   /\ recs[i].book \in qualifying
                   /\ recs[i].score = Round3(RatioOf(result.user_id, recs[i].book))
            /\ \A i, j \in DOMAIN recs : i # j => recs[i].book # recs[j].book
            /\ Len(recs) = Min(result.limit, Cardinality(qualifying))
            /\ \A b \in qualifying \ RecIds(recs) : \A i \in DOMAIN recs :
                   Round3(RatioOf(result.user_id, b)) <= recs[i].score

(***************************************************************************)
(* Properties of the collaborative engine                                  *)
(***************************************************************************)
\* a / b + c / d, a / b * n and (a / b) / (c / d) for fractions
FracPlus(f, g) == Frac(f.num * g.den + g.num * f.den, f.den * g.den)

FracTimes(f, n, d) == Frac(f.num * n, f.den * d)

FracQuot(f, g) == Frac(f.num * g.den, f.den * g.num)

\* sim(U, P): the Jaccard similarity of the normalized interest sets
Sim(user_id, other) ==
    JaccardSimilarity(NormalizeGenres(users[user_id].interests),
                      NormalizeGenres(users[other].interests))

\* the kept similar peers of a user: the other users with interests whose
\* similarity is at least 0.1
PeersOf(user_id) ==
    IF ~UserExists(user_id) THEN {}
    ELSE {p \in UserIds \ {user_id} :
            /\ NormalizeGenres(users[p].interests) # {}
            /\ AtLeastMinSimilarity(Sim(user_id, p))}

\* the peers that rated the book with 4 or 5
Recommenders(user_id, book_id) ==
    {p \in PeersOf(user_id) : GetUserRating(p, book_id) >= HighRatingMin}

\* M: the sum of sim(U, P) over the peers in ps
RECURSIVE SumSim(_, _)
SumSim(user_id, ps) ==
    IF ps = {} THEN Frac(0, 1)
    ELSE LET p == CHOOSE q \in ps : TRUE
         IN  FracPlus(Sim(user_id, p), SumSim(user_id, ps \ {p}))

\* T: the sum of sim(U, P) * r / 5 over the peers in ps
RECURSIVE SumWeighted(_, _, _)
SumWeighted(user_id, book_id, ps) ==
    IF ps = {} THEN Frac(0, 1)
    ELSE LET p == CHOOSE q \in ps : TRUE
         IN  FracPlus(FracTimes(Sim(user_id, p), GetUserRating(p, book_id), 5),
                      SumWeighted(user_id, book_id, ps \ {p}))

\* min(T / M, 1) rounded to three decimals, in thousandths
ScoreOf(user_id, book_id) ==
    LET T == SumWeighted(user_id, book_id, Recommenders(user_id, book_id))
        M == SumSim(user_id, PeersOf(user_id))
        q == FracQuot(T, M)
    IN  IF q.num >= q.den THEN 1000 ELSE Round3(q)

\* C11: the score of every book X that get_collaborative_recommendations(U)
\* returns equals min(T / M, 1) rounded to three decimals, T the sum of
\* sim(U, P) * r / 5 over the kept peers P that rated X with r >= 4 and M the
\* sum of sim(U, P) over all kept peers
C11_CollaborativeScore ==
    result.op = "get_collaborative_recommendations" =>
        \A i \in DOMAIN result.value :
            result.value[i].score = ScoreOf(result.user_id, result.value[i].book)

\* the Jaccard similarity of the normalized interest sets of two users, the
\* normalisation being lower case, trimmed, empty entries dropped
TrimmedSim(user_id, other) ==
    JaccardSimilarity(TrimmedLabels(users[user_id].interests),
                      TrimmedLabels(users[other].interests))

\* C12: find_similar_users(U) returns exactly the users P # U whose normalized
\* interest set is non-empty and whose Jaccard similarity with the normalized
\* interest set of U is at least 0.1, never U itself, each once, ordered by
\* non-increasing similarity; the result is empty when U is absent or has no
\* interests
C12_FindSimilarUsersExact ==
    result.op = "find_similar_users" =>
        LET value == result.value
            U == result.user_id
            found == {value[i].user_id : i \in DOMAIN value}
        IN  /\ (~UserExists(U) \/ users[U].interests = <<>>) => value = <<>>
            /\ UserExists(U) =>
                   found = {P \in UserIds \ {U} :
                               /\ TrimmedLabels(users[P].interests) # {}
                               /\ AtLeastMinSimilarity(TrimmedSim(U, P))}
            /\ U \notin found
            /\ \A i, j \in DOMAIN value : i # j => value[i].user_id # value[j].user_id
            /\ \A i, j \in DOMAIN value : i < j => value[i].similarity >= value[j].similarity

\* C13: with limit at least the number of books get_collaborative_recommendations(U)
\* returns exactly the books that U has not rated and that at least one kept
\* similar peer of U rated with 4 or 5, each once; a book that peers rated only
\* 1 to 3, or that only users who are not kept peers rated >= 4, is not returned
C13_CollaborativeExact ==
    (result.op = "get_collaborative_recommendations" /\ result.limit >= Len(books)) =>
        /\ RecIds(result.value) =
               {b \in BookIds : /\ <<result.user_id, b>> \notin DOMAIN ratings
                                /\ Recommenders(result.user_id, b) # {}}
        /\ \A i, j \in DOMAIN result.value :
               i # j => result.value[i].book # result.value[j].book

\* a call that returns a book while another unrated book, which a kept peer
\* rated 3, is left out
C13_Witness ==
    /\ result.op = "get_collaborative_recommendations"
    /\ result.limit >= Len(books)
    /\ result.value # <<>>
    /\ \E b \in BookIds \ RecIds(result.value) :
           /\ <<result.user_id, b>> \notin DOMAIN ratings
           /\ \E p \in PeersOf(result.user_id) : GetUserRating(p, b) = 3

\* C14: in every collaborative record num_similar_users is the number N of kept
\* similar peers who rated the book >= 4, and N >= 1; the reason has the
\* single-reader form, with that peer's rating, exactly when N = 1, and
\* otherwise names N readers and the mean of the N ratings (printed with one
\* decimal, here in tenths)
C14_ContributorsAndReason ==
    result.op = "get_collaborative_recommendations" =>
        \A i \in DOMAIN result.value :
            LET rec == result.value[i]
                rs == Recommenders(result.user_id, rec.book)
                N == Cardinality(rs)
                total == SumRatings({<<p, rec.book>> : p \in rs})
            IN  /\ rec.num_similar_users = N
                /\ N >= 1
                /\ (N = 1) <=> (rec.reason.text = "Recommended by a reader with similar taste")
                /\ (N = 1) =>
                       \E p \in rs : rec.reason.rated = GetUserRating(p, rec.book)
                /\ (N # 1) =>
                       /\ rec.reason.text = "Loved by readers with similar taste"
                       /\ rec.reason.readers = N
                       /\ rec.reason.avg = RoundTo(Frac(total, N), 10)

\* a record for a book that two peers rated 4 and 5: 2 readers, average 4.5
C14_Witness ==
    /\ result.op = "get_collaborative_recommendations"
    /\ \E i \in DOMAIN result.value :
           /\ result.value[i].num_similar_users = 2
           /\ result.value[i].reason.readers = 2
           /\ result.value[i].reason.avg = 45

(***************************************************************************)
(* Properties of the fallback, the home feed and the similar-books query   *)
(***************************************************************************)
\* C15: every record of get_fallback_recommendations is tagged "fallback"; a
\* record taken from the popular list has score 0.5 and reason "Popular among
\* readers" if the book has ratings, "Recently added" if it has none; a record
\* appended from the recent list has score 0.3 and reason "Recently added", is
\* appended only when the popular step produced fewer than limit records, and
\* repeats no book id of the list; a user without ratings gets all of 3 books
\* with limit 3
C15_FallbackRecords ==
    result.op = "get_fallback_recommendations" =>
        LET value == result.value
            from_popular ==
                FilterSeq(result.popular,
                          {b \in BookIds : <<result.user_id, b>> \notin DOMAIN ratings})
            n == Len(from_popular)
        IN  /\ \A i \in DOMAIN value : value[i].recommendation_type = "fallback"
            /\ \A i \in DOMAIN value : i <= n =>
                   /\ value[i].book = from_popular[i]
                   /\ value[i].score = 500
                   /\ value[i].reason = IF RatingCount(value[i].book) > 0
                                        THEN "Popular among readers" ELSE "Recently added"
            /\ \A i \in DOMAIN value : i > n =>
                   /\ value[i].book \in Range(result.recent)
                   /\ value[i].score = 300
                   /\ value[i].reason = "Recently added"
                   /\ n < result.limit
            /\ \A i, j \in DOMAIN value : i # j => value[i].book # value[j].book
            /\ (GetRatedBookIds(result.user_id) = {} /\ Len(books) = 3 /\ result.limit = 3)
                   => (Len(value) = 3 /\ RecIds(value) = BookIds)

\* a list of a popular record followed by a recent record, the recent list
\* holding the popular book too
C15_Witness ==
    /\ result.op = "get_fallback_recommendations"
    /\ Len(result.value) >= 2
    /\ result.value[1].score = 500
    /\ result.value[2].score = 300
    /\ result.value[1].book \in Range(result.recent)
\* the three sources in the order of a pass
SourcesOf(all_recs) == <<all_recs.content_based, all_recs.collaborative, all_recs.fallback>>

\* the items of the sources as <<index, source>>, and the order in which the
\* passes consider them
ItemsOf(all_recs) ==
    UNION {{<<i, k>> : i \in DOMAIN SourcesOf(all_recs)[k]} : k \in 1..3}

ConsideredBefore(x, y) == x[1] < y[1] \/ (x[1] = y[1] /\ x[2] < y[2])

BookOverlap(a, b) ==
    JaccardSimilarity(TrimmedLabels(books[a].genres), TrimmedLabels(books[b].genres))

\* C17: get_similar_books(bookId, limit) never returns the book bookId, returns
\* only books whose normalized genre overlap with the genres of bookId is at
\* least 0.1, returns at most limit books, and returns the empty list when
\* bookId does not exist
C17_SimilarBooks ==
    result.op = "get_similar_books" =>
        /\ \A i \in DOMAIN result.value :
               /\ result.value[i].book # result.book_id
               /\ AtLeastThreshold(BookOverlap(result.book_id, result.value[i].book))
        /\ Len(result.value) <= result.limit
        /\ ~BookExists(result.book_id) => result.value = <<>>

\* a call for a stored book that returns a book of the same genres and leaves
\* out a book of other genres
C17_Witness ==
    /\ result.op = "get_similar_books"
    /\ BookExists(result.book_id)
    /\ result.value # <<>>
    /\ \E b \in BookIds \ {result.book_id} :
           ~AtLeastThreshold(BookOverlap(result.book_id, b))

(***************************************************************************)
(* Properties of explain_recommendation, of the read operations as a whole *)
(* and of the empty cases                                                  *)
(***************************************************************************)
\* (a) the interests of the user and the genres of the book overlap, compared
\* case-insensitively and whitespace-trimmed
OverlapHolds(user_id, book_id) ==
    TrimmedLabels(users[user_id].interests) \cap TrimmedLabels(books[book_id].genres) # {}

\* (b) a kept similar peer of the user rated the book >= 4 (a user has fewer
\* than five peers here)
PeerLikedHolds(user_id, book_id) == Recommenders(user_id, book_id) # {}

\* (c) the average rating of the book is >= 4
PopularHolds(book_id) ==
    RatingCount(book_id) > 0 /\ RatingSum(book_id) >= 4 * RatingCount(book_id)

\* the clauses of the conditions that hold, in the order (a), (b), (c)
ClausesThatHold(user_id, book_id) ==
    (IF OverlapHolds(user_id, book_id)
        THEN <<"This book matches your interest in">> ELSE <<>>)
    \o (IF PeerLikedHolds(user_id, book_id)
           THEN <<"Readers with similar taste rated this">> ELSE <<>>)
    \o (IF PopularHolds(book_id) THEN <<"Highly rated by readers">> ELSE <<>>)

\* C18: for an existing user U and book B explain_recommendation(U, B) returns
\* the clauses, in the order (a), (b), (c), of exactly the conditions that
\* hold: (a) interests and genres overlap, (b) a similar peer rated B >= 4 (at
\* most one peer clause), (c) the average rating of B is >= 4; it returns the
\* generic sentence exactly when none holds
C18_ExplainClauses ==
    (/\ result.op = "explain_recommendation"
     /\ UserExists(result.user_id)
     /\ BookExists(result.book_id)) =>
        LET expected == ClausesThatHold(result.user_id, result.book_id)
        IN  /\ (result.value.kind = "Based on your reading preferences") <=> (expected = <<>>)
            /\ expected # <<>> =>
                   /\ result.value.kind = "joined"
                   /\ [i \in DOMAIN result.value.clauses |-> result.value.clauses[i].clause]
                          = expected

(***************************************************************************)
(* C19: get_recommendations, get_personalized_home_feed, get_similar_books,*)
(* explain_recommendation and get_recommendation_stats leave the stored    *)
(* users, books, ratings and sessions unchanged: the storage after the     *)
(* call equals the storage before it, for every input.                     *)
(***************************************************************************)
ReadOperations ==
    {"get_recommendations", "get_personalized_home_feed", "get_similar_books",
     "explain_recommendation", "get_recommendation_stats"}

ReadReturns == result = NoResult /\ result'.op \in ReadOperations

C19_ReadsLeaveStorage ==
    [][ReadReturns => UNCHANGED <<users, books, ratings, sessions>>]_vars

\* a read operation has returned on a store with users, books, ratings, a
\* session that get_session selects and one that cleanup would delete
C19_Witness ==
    /\ result.op \in ReadOperations
    /\ users # <<>> /\ books # <<>> /\ DOMAIN ratings # {}
    /\ \E t \in DOMAIN sessions : ~SessionSelected(t)
    /\ \E t \in DOMAIN sessions : SessionSelected(t)

(***************************************************************************)
(* C20: for every user id and every stored state,                          *)
(* get_content_based_recommendations and get_collaborative_recommendations *)
(* return the empty list when the user is absent or has no interests;      *)
(* get_recommendations completes with three lists; and no division by zero *)
(* is reachable: whenever a collaborative score is normalized, the sum of  *)
(* the kept-peer similarities is > 0 and the book has at least one         *)
(* contributor.                                                            *)
(***************************************************************************)
EngineOperations ==
    {"get_content_based_recommendations", "get_collaborative_recommendations"}

NoInterests(user_id) == ~UserExists(user_id) \/ users[user_id].interests = <<>>

\* every divisor the scoring loop can meet for the user is positive, as is the
\* exact sum of the similarities of the kept peers
DivisorsPositive(user_id) ==
    \A similar_users \in FindSimilarUsersResults(user_id) :
        \A rows \in GetHighRatedBooksByUsersResults(
                        {similar_users[i].user_id : i \in DOMAIN similar_users},
                        HighRatingMin) :
            \A d \in CollaborativeDivisors(user_id, similar_users, rows) :
                /\ d.max_possible > 0
                /\ d.num_recommenders >= 1
                /\ SumSim(user_id, PeersOf(user_id)).num > 0
                /\ Recommenders(user_id, d.book) # {}

\* get_recommendations has an outcome for the user, and every outcome is three
\* lists
CompletesWithThreeLists(user_id, limit) ==
    /\ GetRecommendationsResults(user_id, limit) # {}
    /\ \A r \in GetRecommendationsResults(user_id, limit) :
           /\ DOMAIN r = {"content_based", "collaborative", "fallback"}
           /\ \A l \in ListsOf(r) : DOMAIN l = 1..Len(l)

\* the first conjunct is about the calls that returned; the second is about
\* every store between two calls, for every user id a call can be given
C20_EdgeCasesHandled ==
    /\ (result.op \in EngineOperations /\ NoInterests(result.user_id)) =>
           result.value = <<>>
    /\ result = NoResult =>
           \A user_id \in UserIdInputs :
               /\ CompletesWithThreeLists(user_id, MaxLimit)
               /\ DivisorsPositive(user_id)

\* a collaborative call that normalized a score, on a store that also holds a
\* user without interests, who is not a kept peer of the caller
C20_Witness ==
    /\ result.op = "get_collaborative_recommendations"
    /\ result.value # <<>>
    /\ \E u \in UserIds \ {result.user_id} :
           /\ users[u].interests = <<>>
           /\ u \notin PeersOf(result.user_id)

(***************************************************************************)
(* C21: after any sequence and any interleaving of rate_book calls there   *)
(* is at most one stored rating per (user, book) pair, its value is an     *)
(* integer in 1..5 and is the value of the last successful rate_book call  *)
(* for the pair; a call with a rating outside 1..5 or for a book that does *)
(* not exist fails and leaves the stored ratings unchanged.                *)
(***************************************************************************)
\* caller c finishes a rate_book call in this step
RateBookFinishes(c) ==
    /\ calls'[c].op = "rate_book"
    /\ calls'[c].pc = "done"
    /\ calls[c] # calls'[c]

\* the rows of the ratings table for a pair
RatingRows(pair) == {<<p, ratings[p]>> : p \in DOMAIN ratings \cap {pair}}

C21_RatingStep ==
    /\ DOMAIN ratings \subseteq DOMAIN ratings'
    /\ \A p \in DOMAIN ratings' :
           /\ ratings'[p] \in MIN_RATING..MAX_RATING
           /\ (p \notin DOMAIN ratings \/ ratings'[p] # ratings[p]) =>
                  \E c \in Callers :
                      /\ RateBookFinishes(c)
                      /\ calls'[c].ok
                      /\ p = <<calls'[c].user_id, calls'[c].book_id>>
    /\ \A c \in Callers :
           RateBookFinishes(c) =>
               LET call == calls'[c]
                   pair == <<call.user_id, call.book_id>>
               IN  /\ call.ok => (pair \in DOMAIN ratings' /\ ratings'[pair] = call.rating)
                   /\ ~call.ok => ratings' = ratings
                   /\ (call.rating \notin MIN_RATING..MAX_RATING
                          \/ (calls[c] = Idle /\ ~BookExists(call.book_id)))
                          => (~call.ok /\ ratings' = ratings)

C21_OneRatingLastWins ==
    /\ [][C21_RatingStep]_vars
    /\ [](\A u \in UserIds, b \in BookIds : Cardinality(RatingRows(<<u, b>>)) <= 1)

\* both callers have finished a successful rate_book call for the same pair,
\* with different values
C21_Witness ==
    \E c, d \in Callers :
        /\ c # d
        /\ calls[c].op = "rate_book" /\ calls[c].pc = "done" /\ calls[c].ok
        /\ calls[d].op = "rate_book" /\ calls[d].pc = "done" /\ calls[d].ok
        /\ calls[c].user_id = calls[d].user_id
        /\ calls[c].book_id = calls[d].book_id
        /\ calls[c].rating # calls[d].rating

(***************************************************************************)
(* C22: every record returned by get_content_based_recommendations has a   *)
(* reason that names at least one and at most three genres, each taken     *)
(* from the book's genre list and each equal, after lowercasing and        *)
(* trimming, to one of the user's normalized interests; the generic reason *)
(* is never produced for a returned book, including when labels differ     *)
(* only by case or surrounding whitespace.                                 *)
(***************************************************************************)
C22_ContentReasonNamesGenres ==
    result.op = "get_recommendations" =>
        \A i \in DOMAIN result.content_based :
            LET rec == result.content_based[i]
                named == rec.reason.genres
            IN  /\ rec.reason.text = "Matches your interest in"
                /\ Len(named) \in 1..3
                /\ \A k \in DOMAIN named :
                       /\ named[k] \in Range(books[rec.book].genres)
                       /\ Strip(Lower(named[k]))
                              \in TrimmedLabels(users[result.user_id].interests)

(***************************************************************************)
(* C23: for every peer record returned by find_similar_users(U),           *)
(* common_interests is non-empty and consists of exactly those entries of  *)
(* U's own interest list whose lowercased-and-trimmed form is in both U's  *)
(* and the peer's normalized interest sets, including when U's stored      *)
(* interests carry surrounding whitespace or differ in case from the       *)
(* peer's.                                                                 *)
(***************************************************************************)
\* the entries of U's list whose trimmed lower-case form both sets hold
SharedEntries(user_id, peer) ==
    LET own == users[user_id].interests
        both == TrimmedLabels(own) \cap TrimmedLabels(users[peer].interests)
    IN  FilterSeq(own, {g \in Range(own) : Strip(Lower(g)) \in both})

C23_CommonInterests ==
    result.op = "find_similar_users" =>
        \A i \in DOMAIN result.value :
            /\ result.value[i].common_interests # <<>>
            /\ result.value[i].common_interests =
                   SharedEntries(result.user_id, result.value[i].user_id)

(***************************************************************************)
(* C24: validate_session(t) returns a user only if token t was stored by a *)
(* successful login_user, has not since been deleted by logout_user(t) and *)
(* has not expired; once logout_user(t) has returned True, every later     *)
(* validate_session(t) returns None; and a login_user call that fails      *)
(* (empty input, unknown user, wrong password) creates no session.         *)
(***************************************************************************)
\* the time that the stored text of expires_at denotes
ExpiryOf(session_token) ==
    [day |-> sessions[session_token].expires_at[1],
     hour |-> sessions[session_token].expires_at[3]]

HasExpired(session_token) == HoursOf(ExpiryOf(session_token)) <= HoursOf(now)

ValidatedUser(session_token) ==
    /\ result.op = "validate_session"
    /\ result.session_token = session_token
    /\ result.user # 0

LoggedOut(session_token) ==
    /\ result.op = "logout_user"
    /\ result.session_token = session_token
    /\ result.ok

C24_ValidOnlyIfLive ==
    \A t \in TokenInputs :
        ValidatedUser(t) =>
            /\ t \in {SessionTokens[k] : k \in 1..issued}
            /\ t \in DOMAIN sessions
            /\ result.user = sessions[t].user_id
            /\ ~HasExpired(t)

C24_NoneAfterLogout ==
    \A t \in TokenInputs : [](LoggedOut(t) => [](~ValidatedUser(t)))

C24_FailedLoginStoresNothing ==
    [][(result = NoResult /\ result'.op = "login_user" /\ ~result'.ok)
           => UNCHANGED sessions]_vars

C24_SessionLifecycle ==
    /\ []C24_ValidOnlyIfLive
    /\ C24_NoneAfterLogout
    /\ C24_FailedLoginStoresNothing

(***************************************************************************)
(* C25: in get_collaborative_recommendations the per-book running total    *)
(* never exceeds the sum of the kept-peer similarities (bookTotal <=       *)
(* maxPossible for every candidate book in every reachable state), because *)
(* each peer contributes at most one rating per book with rating / 5 <= 1; *)
(* hence the min(..., 1.0) cap never changes a score.                      *)
(***************************************************************************)
C25_TotalAtMostMaxPossible ==
    result.op = "book_scores" => ~FloatGreater(result.score, MaxPossible(argX))

\* the running total and the sum of the similarities without rounding, in
\* units of 1/5000
RECURSIVE ExactTotal(_)
ExactTotal(contributors) ==
    IF contributors = <<>> THEN 0
    ELSE Head(contributors).similarity * Head(contributors).rating
             + ExactTotal(Tail(contributors))

ExactMaxPossible(similar_users) == MAX_RATING * SumSimilarity(similar_users)

\* C25 as it holds: without rounding the running total never exceeds the sum
\* of the kept-peer similarities; the float total exceeds the float
\* max_possible only when the two are equal without rounding, that is when
\* every kept peer rated the book 5 and the capped quotient 1.0 is exact
C25_TotalExceedsOnlyByRounding ==
    result.op = "book_scores" =>
        /\ ExactTotal(result.contributors) <= ExactMaxPossible(argX)
        /\ FloatGreater(result.score, MaxPossible(argX)) =>
               ExactTotal(result.contributors) = ExactMaxPossible(argX)

\* the loop has added the three weighted scores in an order in which the float
\* total is above max_possible
C25_Witness ==
    /\ result.op = "book_scores"
    /\ argY = <<>>
    /\ FloatGreater(result.score, MaxPossible(argX))

(***************************************************************************)
(* C26: if get_personalized_home_feed(U, limit) returns fewer than limit   *)
(* items, every book of the three lists of get_recommendations(U, limit)   *)
(* is in the feed; the feed has min(limit, number of distinct book ids     *)
(* across the three lists) items.                                          *)
(***************************************************************************)
ListedIds(all_recs) ==
    RecIds(all_recs.content_based) \cup RecIds(all_recs.collaborative)
        \cup RecIds(all_recs.fallback)

C26_FeedFilledFromLists ==
    result.op = "get_personalized_home_feed" =>
        /\ Len(result.feed) = Min(result.limit, Cardinality(ListedIds(result.all_recs)))
        /\ Len(result.feed) < result.limit =>
               ListedIds(result.all_recs) \subseteq RecIds(result.feed)

(***************************************************************************)
(* C27: get_fallback_recommendations(U, limit) returns min(limit, number   *)
(* of books U has not rated) records; in particular exactly limit records  *)
(* when at least limit books exist that U has not rated.                   *)
(***************************************************************************)
UnratedBooks(user_id) == {b \in BookIds : <<user_id, b>> \notin DOMAIN ratings}

C27_FallbackCount ==
    result.op = "get_fallback_recommendations" =>
        Len(result.value) = Min(result.limit, Cardinality(UnratedBooks(result.user_id)))

(***************************************************************************)
(* C28: every result of get_recommendation_stats(U) for an existing user   *)
(* has can_use_collaborative only together with has_interests and          *)
(* can_use_content_based, and similar_users_count equal to the length of   *)
(* the list find_similar_users(U) returned; also when an update of U's     *)
(* interests commits between the reads of the call.                        *)
(***************************************************************************)
C28_StatsConsistent ==
    \A c \in Callers :
        (/\ calls[c].op = "get_recommendation_stats"
         /\ calls[c].pc = "done"
         /\ calls[c].value # [error |-> "User not found"]) =>
            LET value == calls[c].value
            IN  /\ value.can_use_collaborative =>
                       (value.has_interests /\ value.can_use_content_based)
                /\ value.similar_users_count = Len(calls[c].similar_users)

(***************************************************************************)
(* C29: a book that user U had already rated when a get_recommendations(U, *)
(* limit) call began is in none of the three returned lists, for every     *)
(* interleaving of the reads of the call with rate_book, update_interests  *)
(* and add_book calls; ratings are inserted or overwritten, never removed. *)
(***************************************************************************)
ReturnedIds(call) ==
    RecIds(call.content_based) \cup RecIds(call.collaborative) \cup RecIds(call.fallback)

C29_RatedAtStartNeverReturned ==
    /\ [][DOMAIN ratings \subseteq DOMAIN ratings']_vars
    /\ [](\A c \in Readers :
             (calls[c].op = "get_recommendations" /\ calls[c].pc = "done") =>
                 calls[c].rated_at_start \cap ReturnedIds(calls[c]) = {})

\* a call has returned a book although the user had rated another book when
\* the call began and has rated a further one since
C29_Witness ==
    \E c \in Readers :
        /\ calls[c].op = "get_recommendations"
        /\ calls[c].pc = "done"
        /\ calls[c].rated_at_start # {}
        /\ calls[c].rated_at_start # GetRatedBookIds(calls[c].user_id)
        /\ ReturnedIds(calls[c]) # {}

(***************************************************************************)
(* C30: after any sequence and any interleaving of BookService.add_book    *)
(* calls (each a check_book_exists read followed by a create_book insert)  *)
(* no two stored books have the same normalized title and author, compared *)
(* case-insensitively; an add_book call that finds or collides with an     *)
(* existing book returns failure with no book id and leaves the stored     *)
(* books unchanged.                                                        *)
(***************************************************************************)
SameBook(a, b) ==
    /\ Lower(NormalizeTitle(a.title)) = Lower(NormalizeTitle(b.title))
    /\ Lower(NormalizeTitle(a.author)) = Lower(NormalizeTitle(b.author))

AddBookFinishes(c) ==
    /\ calls'[c].op = "add_book"
    /\ calls'[c].pc = "done"
    /\ calls[c] # calls'[c]

C30_AddBookStep ==
    \A c \in Callers :
        AddBookFinishes(c) =>
            LET call == calls'[c]
                existed == \E b \in BookIds : SameBook(books[b], call)
            IN  /\ (call.valid /\ existed) => ~call.ok
                /\ ~call.ok => (call.book_id = 0 /\ books' = books)
                /\ call.ok => /\ call.book_id = Len(books')
                              /\ books' = Append(books, [title |-> call.title,
                                                         author |-> call.author,
                                                         genres |-> call.genres])

C30_NoDuplicateBooks ==
    /\ [][C30_AddBookStep]_vars
    /\ [](\A a, b \in BookIds : a # b => ~SameBook(books[a], books[b]))

\* two callers passed check_book_exists for the same book; one has inserted
\* it and the other has collided with that row
C30_Witness ==
    \E c, d \in Callers :
        /\ c # d
        /\ calls[c].op = "add_book" /\ calls[c].pc = "done" /\ calls[c].ok
        /\ calls[d].op = "add_book" /\ calls[d].pc = "done" /\ ~calls[d].ok
        /\ calls[d].valid /\ ~calls[d].found
        /\ SameBook(calls[c], calls[d])

====
